---------------------------- MODULE Spec2Model ----------------------------
(***************************************************************************)
(* A model of the queue orchestrator of creative-ai-agents                 *)
(* (src/poets_cron_service_v3.py and src/media).                           *)
(*                                                                         *)
(* Two specifications share the module:                                    *)
(*   SpecLock  the ProcessLock protocol, step by step (one step per        *)
(*             system call group), run by two process slots on one path;   *)
(*   Spec      one orchestrator running successive --queue invocations     *)
(*             over the prompts table (added below the lock protocol).     *)
(***************************************************************************)
EXTENDS Integers, Sequences, FiniteSets, TLC

(***************************************************************************)
(* Bounds of the model.                                                    *)
(***************************************************************************)
\* The clock of the lock protocol runs from 0 to MaxNow.
MaxNow == 4
\* timeout_minutes (45 at the call site), counted in clock steps of the model.
LockTimeout == 2

\* Process slots that run --queue invocations concurrently.
Procs == {1, 2}
\* The rows of the prompts table, and the prompt types the queue routes.
\* Id 12 is there because its decimal form starts with that of id 1.
PromptIds == {1, 12}
PromptTypes == {"text", "image_prompt", "music"}
\* The files a media script may leave in its run directory.
Files == {"f1", "f2"}
\* (mtime_ns, size_bytes) of a file.
Metas == {<<1, 1>>}
\* generate_*_json / save_to_database calls the agents make in one session.
MaxCalls == 2
\* --queue invocations of the orchestrator.
MaxTicks == 2

VARIABLES
    \* ---- the lock file and the processes of the lock protocol ----
    lock_file,     \* the file at self.lock_file: NoFile, or a record
    now,           \* datetime.now()
    lpc,           \* lpc[p]: where process p is in acquire / the tick / release
    lock_fd,       \* lock_fd[p]: self.lock_fd is not None
    lock_info,     \* lock_info[p]: timeout_at as read by _cleanup_stale_lock
    seenStale,     \* seenStale[p]: history, timeout_at of the crashed holder's
                   \* expired lock that was in place when p's attempt began
    \* ---- the shared store ----
    tbl,           \* prompts table: id -> row
    row_order,     \* the ids in ORDER BY priority ASC, created_at ASC
    writings,      \* writings table, in id order (id = position)
    prompt_writings,   \* junction rows [prompt_id, writing_id, writing_order]
    prompt_artifacts,  \* rows [prompt_id, artifact_type, file_path]
    \* ---- the configuration file and the service object ----
    config,        \* the media section of the configuration
    schema,        \* the tables of the database and the media columns of prompts
    faults,        \* whether writes to the database may fail in this run
    svc,           \* media_enabled, media_available, media_pipelines, map
    \* ---- one --queue invocation ----
    tpc,           \* where the invocation is
    prompts,       \* the local `prompts` of run_queue_processor
    media_prompts, \* the local `media_prompts`
    idx,           \* position in the loop being run
    ticks,         \* invocations started so far
    checkpointed,  \* history: the invocation has forced its WAL checkpoint
    \* ---- what the invocation did (history) ----
    contacted,     \* HTTP endpoints contacted during this invocation
    started,       \* prompts whose media subprocess was started in it
    handled,       \* handled[p]: how p was handled in it
    \* ---- single calls of the helper functions ----
    validation,    \* history: how the checks of 1799-1820 ended in this invocation
    retry,         \* one call of retry_database_operation
    snap,          \* one snapshot_files / detect_new_files round
    queue,         \* the two queue queries and the loops on a longer queue
    agents         \* how many agents create_agents builds from config['agents']

lockVars == <<lock_file, now, lpc, lock_fd, lock_info, seenStale>>
storeVars == <<tbl, row_order, writings, prompt_writings, prompt_artifacts>>
fnVars == <<retry, snap, queue>>
cfgVars == <<config, schema, faults, fnVars, validation, agents>>
tickVars == <<cfgVars, svc, tpc, prompts, media_prompts, idx, ticks,
              checkpointed, contacted, started, handled>>

vars == <<lock_file, now, lpc, lock_fd, lock_info, seenStale,
          tbl, row_order, writings, prompt_writings, prompt_artifacts,
          config, schema, faults, svc, tpc, prompts, media_prompts, idx,
          ticks, checkpointed, contacted, started, handled, validation,
          retry, snap, queue, agents>>

(***************************************************************************)
(* ProcessLock (src/poets_cron_service_v3.py 57-138).                      *)
(***************************************************************************)
NoFile == [exists |-> FALSE]
\* The content of a file created with O_EXCL and not yet written; a written
\* payload is <<timeout_at>>.  NoT: no timeout_at was read or recorded.
Empty == <<>>
NoT == <<>>
\* The content of a file that parses as JSON and has no timeout_at (or an
\* empty one): lock_info.get('timeout_at') is falsy.
NoTimeoutAt == <<-1>>

\* A lock file: who created it, its payload (Empty or <<timeout_at>>), and
\* whether the process that created it was terminated without releasing.
NewFile(p) == [exists |-> TRUE, creator |-> p, payload |-> Empty, orphan |-> FALSE]

\* The file at the path is the one process p created and still has open.
IsOwnFile(p) ==
    /\ lock_file.exists
    /\ lock_file.creator = p
    /\ ~lock_file.orphan

\* datetime.now() > timeout_time
IsStaleReversed(t) == now < t
IsStale(t) == now > t

\* The lock of a crashed holder whose timeout_at has passed.
StaleOrphan ==
    /\ lock_file.exists
    /\ lock_file.orphan
    /\ lock_file.payload # Empty
    /\ lock_file.payload # NoTimeoutAt
    /\ now > lock_file.payload[1]

LockInit ==
    /\ lock_file = NoFile
    /\ now = 0
    /\ lpc = [p \in Procs |-> "idle"]
    /\ lock_fd = [p \in Procs |-> FALSE]
    /\ lock_info = [p \in Procs |-> NoT]
    /\ seenStale = [p \in Procs |-> NoT]

\* main --queue: run_queue_processor enters `with ProcessLock(...)`.
StartTick(p) ==
    /\ lpc[p] = "idle"
    /\ lpc' = [lpc EXCEPT ![p] = "exists"]
    /\ lock_info' = [lock_info EXCEPT ![p] = NoT]
    /\ seenStale' = [seenStale EXCEPT ![p] =
                        IF StaleOrphan THEN lock_file.payload ELSE NoT]
    /\ UNCHANGED <<lock_file, now, lock_fd>>
    /\ UNCHANGED <<storeVars, tickVars>>

\* _cleanup_stale_lock: `if not os.path.exists(self.lock_file): return`
CleanupExists(p) ==
    /\ lpc[p] = "exists"
    /\ lpc' = [lpc EXCEPT ![p] = IF lock_file.exists THEN "read" ELSE "create"]
    /\ UNCHANGED <<lock_file, now, lock_fd, lock_info, seenStale>>
    /\ UNCHANGED <<storeVars, tickVars>>

\* _cleanup_stale_lock: open + json.load + lock_info.get('timeout_at').
\* A missing file or an unwritten (empty) one raises inside the try block.
CleanupRead(p) ==
    /\ lpc[p] = "read"
    /\ IF lock_file.exists /\ lock_file.payload # Empty
         THEN /\ lock_info' = [lock_info EXCEPT ![p] = lock_file.payload]
              /\ lpc' = [lpc EXCEPT ![p] = "decide"]
         ELSE /\ lock_info' = lock_info
              /\ lpc' = [lpc EXCEPT ![p] = "corrupt"]
    /\ UNCHANGED <<lock_file, now, lock_fd, seenStale>>
    /\ UNCHANGED <<storeVars, tickVars>>

\* _cleanup_stale_lock: `if timeout_str:` and then
\* `if datetime.now() > timeout_time: os.unlink(...)`.
\* os.unlink of a path that is gone raises; the handler's own unlink fails
\* too and is ignored, so nothing changes.
CleanupDecide(p) ==
    /\ lpc[p] = "decide"
    /\ lock_file' = IF lock_info[p] # NoTimeoutAt /\ IsStale(lock_info[p][1])
                      THEN NoFile
                      ELSE lock_file
    /\ lpc' = [lpc EXCEPT ![p] = "create"]
    /\ UNCHANGED <<now, lock_fd, lock_info, seenStale>>
    /\ UNCHANGED <<storeVars, tickVars>>

\* _cleanup_stale_lock: the `except Exception` handler unlinks the path.
CleanupCorrupt(p) ==
    /\ lpc[p] = "corrupt"
    /\ lock_file' = NoFile
    /\ lpc' = [lpc EXCEPT ![p] = "create"]
    /\ UNCHANGED <<now, lock_fd, lock_info, seenStale>>
    /\ UNCHANGED <<storeVars, tickVars>>

\* acquire: os.open(O_CREAT | O_WRONLY | O_EXCL); FileExistsError -> False,
\* and __enter__ raises RuntimeError, which run_queue_processor logs.
CreateExclusive(p) ==
    /\ lpc[p] = "create"
    /\ IF lock_file.exists
         THEN /\ lpc' = [lpc EXCEPT ![p] = "busy"]
              /\ UNCHANGED <<lock_file, lock_fd>>
         ELSE /\ lock_file' = NewFile(p)
              /\ lock_fd' = [lock_fd EXCEPT ![p] = TRUE]
              /\ lpc' = [lpc EXCEPT ![p] = "write"]
    /\ UNCHANGED <<now, lock_info, seenStale>>
    /\ UNCHANGED <<storeVars, tickVars>>

\* acquire: os.write(self.lock_fd, ...) + fsync; the descriptor writes to
\* the file p created, whether or not that file is still at the path.
WritePayload(p) ==
    /\ lpc[p] = "write"
    /\ lock_file' = IF IsOwnFile(p)
                      THEN [lock_file EXCEPT !.payload = <<now + LockTimeout>>]
                      ELSE lock_file
    /\ lpc' = [lpc EXCEPT ![p] = "work"]
    /\ UNCHANGED <<now, lock_fd, lock_info, seenStale>>
    /\ UNCHANGED <<storeVars, tickVars>>

\* __exit__ -> release: close the descriptor, unlink the path if it exists.
Release(p) ==
    /\ lpc[p] = "work"
    /\ lock_fd' = [lock_fd EXCEPT ![p] = FALSE]
    /\ lock_file' = NoFile
    /\ lpc' = [lpc EXCEPT ![p] = "idle"]
    /\ UNCHANGED <<now, lock_info, seenStale>>
    /\ UNCHANGED <<storeVars, tickVars>>

\* The invocation that found the lock busy returns; the process exits.
ExitBusy(p) ==
    /\ lpc[p] = "busy"
    /\ lpc' = [lpc EXCEPT ![p] = "idle"]
    /\ UNCHANGED <<lock_file, now, lock_fd, lock_info, seenStale>>
    /\ UNCHANGED <<storeVars, tickVars>>

\* The host terminates the process: no release, the file stays.
Crash(p) ==
    /\ lpc[p] \in {"write", "work"}
    /\ lock_fd' = [lock_fd EXCEPT ![p] = FALSE]
    /\ lock_file' = IF IsOwnFile(p)
                      THEN [lock_file EXCEPT !.orphan = TRUE]
                      ELSE lock_file
    /\ lpc' = [lpc EXCEPT ![p] = "idle"]
    /\ UNCHANGED <<now, lock_info, seenStale>>
    /\ UNCHANGED <<storeVars, tickVars>>

AdvanceClock ==
    /\ now < MaxNow
    /\ now' = now + 1
    /\ UNCHANGED <<lock_file, lpc, lock_fd, lock_info, seenStale>>
    /\ UNCHANGED <<storeVars, tickVars>>

(***************************************************************************)
(* The store: prompts, writings, prompt_writings, prompt_artifacts.        *)
(***************************************************************************)
None == "NULL"
StructuredTypes == {"image_prompt", "lyrics_prompt"}

\* error_message texts the orchestrator writes.
MsgJson == "Failed to extract or validate JSON from conversation"
MsgSession == "exception in generation session"
MsgNoMap == "No media pipeline for prompt type"
MsgNoPipeline == "Media pipeline is unavailable"
MsgHost == "ComfyUI host is unavailable"
MsgNoArtifacts == "No artifacts were produced"
MsgExit == "Workflow failed with code"
MsgTimeout == "Workflow timed out"

\* The artifact_metadata argument and column: NoMetadata is None / NULL, a
\* given dict d is <<d>>, and the column stores json.dumps(d).  A dict is
\* modelled by the set of its keys.
NoMetadata == <<>>
MetadataDicts == {{}, {"artifact_count", "run_directory"}}
JsonDumps(d) == <<"json", d>>

\* `if artifact_metadata is not None: updates['artifact_metadata'] = ...`
MetadataAssignmentAlways(old, meta) ==
    IF meta # NoMetadata THEN JsonDumps(meta[1]) ELSE NoMetadata
MetadataAssignment(old, meta) ==
    IF meta # NoMetadata THEN JsonDumps(meta[1]) ELSE old

\* update_prompt_status: one UPDATE whose SET clause holds status, the
\* error_message (given, or cleared unless the new status is failed),
\* artifact_status when given and artifact_metadata when given.
UpdatePromptStatusMeta(t, p, st, err, art, meta) ==
    [t EXCEPT ![p] =
        [@ EXCEPT !.status = st,
                  !.error_message = IF err # None THEN err
                                    ELSE IF st # "failed" THEN None
                                    ELSE @,
                  !.artifact_status = IF art # None THEN art ELSE @,
                  !.artifact_metadata = MetadataAssignment(@, meta)]]

\* A call that passes no artifact_metadata.
UpdatePromptStatus(t, p, st, err, art) ==
    UpdatePromptStatusMeta(t, p, st, err, art, NoMetadata)

\* str(n) as its decimal digits.
RECURSIVE Digits(_)
Digits(n) == IF n < 10 THEN <<n>> ELSE Append(Digits(n \div 10), n % 10)

\* notes LIKE '%Prompt #<p>%' on notes that hold "(Prompt #<q>)": the
\* pattern matches when the digits of p begin the digits of q.
NotesLike(p, q) ==
    LET a == Digits(p)
        b == Digits(q)
    IN  Len(a) <= Len(b) /\ SubSeq(b, 1, Len(a)) = a

\* The rows of a sequence of ids that satisfy keep, in order.
RECURSIVE SelectIds(_, _)
SelectIds(ids, keep) ==
    IF ids = <<>> THEN <<>>
    ELSE IF Head(ids) \in keep THEN <<Head(ids)>> \o SelectIds(Tail(ids), keep)
    ELSE SelectIds(Tail(ids), keep)

\* LIMIT 5 of both queue queries.
QueryLimit == 5
LimitNone(sq) == sq
Limit(sq) == IF Len(sq) > QueryLimit THEN SubSeq(sq, 1, QueryLimit) ELSE sq

UnprocessedOrFailedIn(order, t) ==
    Limit(SelectIds(order, {p \in DOMAIN t : t[p].status \in {"unprocessed", "failed"}}))
\* The query of get_unprocessed_prompts on the rows t, whose ids in
\* ORDER BY priority ASC, created_at ASC are `order`.
UnprocessedIn(order, t) ==
    Limit(SelectIds(order, {p \in DOMAIN t : t[p].status = "unprocessed"}))

\* The query of get_pending_media_prompts.
PendingMediaIn(order, t) ==
    Limit(SelectIds(order,
            {p \in DOMAIN t : /\ t[p].status = "completed"
                              /\ t[p].artifact_status = "pending"
                              /\ t[p].prompt_type \in StructuredTypes}))

\* get_unprocessed_prompts: status = 'unprocessed', ordered, LIMIT 5.
GetUnprocessedPrompts == UnprocessedIn(row_order, tbl)

\* get_pending_media_prompts: completed + pending + structured type.
GetPendingMediaPrompts == PendingMediaIn(row_order, tbl)

\* INSERT OR IGNORE INTO prompt_writings: UNIQUE(prompt_id, writing_id); the
\* row id is AUTOINCREMENT and no row is ever deleted.
InsertIgnored(pw, p, w, ord) == pw
InsertOrIgnore(pw, p, w, ord) ==
    IF \E r \in pw : r.prompt_id = p /\ r.writing_id = w
      THEN pw
      ELSE pw \cup {[id |-> Cardinality(pw) + 1, prompt_id |-> p,
                      writing_id |-> w, writing_order |-> ord]}

(***************************************************************************)
(* The startup migration: initialize_database (585-633) and                *)
(* ensure_media_schema (303-348).                                          *)
(***************************************************************************)
\* The value read for a column the prompts table does not have.
NoColumn == "NO COLUMN"
NoColumnMetadata == <<"no column">>
\* The prompts in rowid order.
ByRowId == <<1, 12>>

\* The schema after create_prompts_table, create_prompt_writings_table and
\* ensure_media_schema: the tables, and the media columns of prompts.
FullSchema ==
    [tables |-> {"prompts", "prompt_writings", "prompt_artifacts"},
     columns |-> {"artifact_status", "artifact_metadata"}]

\* CREATE TABLE IF NOT EXISTS
CreateTableIfNotExists(sch, name) == [sch EXCEPT !.tables = @ \cup {name}]

\* migrate_existing_prompt_references: the prompts with an output_reference
\* and no junction row for it get one, with writing_order 0.
NeedsBackfill(t, pw, p) ==
    /\ t[p].status # "absent"
    /\ t[p].output_reference # 0
    /\ ~\E r \in pw : r.prompt_id = p /\ r.writing_id = t[p].output_reference

RECURSIVE BackfillFrom(_, _, _)
BackfillFrom(t, pw, k) ==
    IF k > Len(ByRowId) THEN pw
    ELSE LET p == ByRowId[k]
         IN  BackfillFrom(t,
                          IF NeedsBackfill(t, pw, p)
                            THEN InsertOrIgnore(pw, p, t[p].output_reference, 0)
                            ELSE pw,
                          k + 1)

MigrateEveryReference(t, pw) ==
    pw \cup {[id |-> Cardinality(pw) + p, prompt_id |-> p,
              writing_id |-> t[p].output_reference, writing_order |-> 0] :
                p \in {q \in PromptIds : /\ t[q].status # "absent"
                                         /\ t[q].output_reference # 0}}
MigrateExistingPromptReferences(t, pw) == BackfillFrom(t, pw, 1)

\* initialize_database on the store st = [schema, tbl, prompt_writings].
InitializeDatabase(st) ==
    [schema |-> CreateTableIfNotExists(
                    CreateTableIfNotExists(st.schema, "prompts"), "prompt_writings"),
     tbl |-> st.tbl,
     prompt_writings |-> MigrateExistingPromptReferences(st.tbl, st.prompt_writings)]

\* ensure_media_schema: the prompt_artifacts table, and ALTER TABLE prompts
\* ADD COLUMN for each media column that PRAGMA table_info does not list;
\* the rows read 'pending' / NULL in a column just added.
EnsureMediaSchema(st) ==
    LET addStatus == "artifact_status" \notin st.schema.columns
        addMetadata == "artifact_metadata" \notin st.schema.columns
    IN  [schema |-> [tables |-> st.schema.tables \cup {"prompt_artifacts"},
                     columns |-> st.schema.columns
                                   \cup {"artifact_status", "artifact_metadata"}],
         tbl |-> [p \in PromptIds |->
                    [st.tbl[p] EXCEPT
                       !.artifact_status = IF addStatus THEN "pending" ELSE @,
                       !.artifact_metadata = IF addMetadata THEN NoMetadata ELSE @]],
         prompt_writings |-> st.prompt_writings]

\* PoetsService.__init__: initialize_database, then, when media is enabled
\* and a pipeline was built, ensure_media_schema.
StartupMigration(st, c) ==
    IF c.enabled /\ c.scripts # {}
      THEN EnsureMediaSchema(InitializeDatabase(st))
      ELSE InitializeDatabase(st)

(***************************************************************************)
(* Configuration and service construction.                                 *)
(***************************************************************************)
\* media.enabled, media.scripts (the pipelines whose script exists),
\* whether media.prompt_type_map adds the structured types, and whether
\* media.comfyui.host is set.
Configs ==
    {[enabled |-> FALSE, scripts |-> {}, map_structured |-> FALSE, host |-> FALSE]}
    \cup [enabled : {TRUE}, scripts : {{}, {"image"}, {"image", "audio"}},
          map_structured : BOOLEAN, host : {TRUE}]
    \cup {[enabled |-> TRUE, scripts |-> {"image", "audio"},
           map_structured |-> FALSE, host |-> FALSE]}

\* default_map of _initialize_media_support, updated by the configured map.
DefaultMap == [image |-> "image", music |-> "audio", audio |-> "audio", voice |-> "audio"]
ConfiguredMap(c) ==
    IF c.map_structured
      THEN [image_prompt |-> "image", lyrics_prompt |-> "audio"]
      ELSE <<>>
MediaPromptTypeMap(c) == ConfiguredMap(c) @@ DefaultMap

NoHandling == [kind |-> "none"]
\* No helper function is being called on its own.
NoCall == [kind |-> "none"]
NoCalls == retry = NoCall /\ snap = NoCall /\ queue = NoCall

\* `if len(agents) < 2`: a group chat needs two agents.
MinAgents == 2
AgentCounts == {MinAgents - 1, MinAgents}

\* A row with status "absent" is one no client has inserted yet; row 12 is
\* in the queue from the start, row 1 from the start or later.
TickInitWith(counts) ==
    /\ tbl \in [PromptIds -> [prompt_type : PromptTypes,
                              status : {"unprocessed", "absent"},
                              artifact_status : {"pending"},
                              error_message : {None},
                              output_reference : {0},
                              artifact_metadata : {NoMetadata}]]
    /\ tbl[12].status = "unprocessed"
    /\ row_order \in {<<1, 12>>, <<12, 1>>}
    /\ writings = <<>>
    /\ prompt_writings = {}
    /\ prompt_artifacts = {}
    /\ config \in Configs
    /\ svc = [media_enabled |-> FALSE, media_available |-> FALSE,
              media_pipelines |-> {}, type_map |-> <<>>]
    /\ tpc = "idle"
    /\ prompts = <<>>
    /\ media_prompts = <<>>
    /\ idx = 1
    /\ ticks = 0
    /\ checkpointed = FALSE
    /\ contacted = {}
    /\ started = {}
    /\ handled = [p \in PromptIds |-> NoHandling]
    /\ schema = FullSchema
    /\ faults \in BOOLEAN
    /\ validation = "none"
    /\ agents \in counts

\* The shipped configuration lists enough agents for a group chat.
TickInit == TickInitWith({MinAgents})

\* A client of the queue inserts a row: status defaults to 'unprocessed',
\* artifact_status to 'pending'.
SubmitPrompt(p) ==
    /\ tpc = "idle"
    /\ tbl[p].status = "absent"
    /\ tbl' = [tbl EXCEPT ![p].status = "unprocessed"]
    /\ UNCHANGED <<lockVars, row_order, writings, prompt_writings,
                   prompt_artifacts, tickVars>>

\* main: PoetsService(config_file).  __init__ creates the tables and, when
\* media is enabled, runs _initialize_media_support, whose last step probes
\* <host>/system_stats unless no pipeline was built or no host is set.
Construct ==
    /\ tpc = "idle"
    /\ ticks < MaxTicks
    /\ ticks' = ticks + 1
    /\ prompts' = <<>>
    /\ media_prompts' = <<>>
    /\ idx' = 1
    /\ started' = {}
    /\ handled' = [p \in PromptIds |-> NoHandling]
    /\ \E healthy \in BOOLEAN :
         LET probes == config.enabled /\ config.scripts # {} /\ config.host
         IN  /\ probes \/ healthy
             /\ contacted' = IF probes THEN {"comfyui"} ELSE {}
             /\ svc' = [media_enabled |-> config.enabled,
                        media_available |-> config.enabled /\ config.scripts # {} /\ healthy,
                        media_pipelines |-> IF config.enabled THEN config.scripts ELSE {},
                        type_map |-> IF config.enabled THEN MediaPromptTypeMap(config) ELSE <<>>]
    /\ LET m == StartupMigration([schema |-> schema, tbl |-> tbl,
                                   prompt_writings |-> prompt_writings], config)
       IN  /\ schema' = m.schema
           /\ tbl' = m.tbl
           /\ prompt_writings' = m.prompt_writings
    /\ tpc' = "lock"
    /\ checkpointed' = FALSE
    /\ validation' = "none"
    /\ UNCHANGED <<lockVars, row_order, writings, prompt_artifacts, config, agents,
                   faults, fnVars>>

\* run_queue_processor: `with ProcessLock(self.lock_file, 45)` run by the
\* one orchestrator of this specification: stale check, create, write.
AcquireLock ==
    /\ tpc = "lock"
    /\ IF lock_file.exists
         THEN /\ tpc' = "idle"
              /\ UNCHANGED lock_file
         ELSE /\ lock_file' = [NewFile(1) EXCEPT !.payload = <<now + LockTimeout>>]
              /\ tpc' = "fetch"
    /\ UNCHANGED <<now, lpc, lock_fd, lock_info, seenStale, storeVars,
                   cfgVars, svc, prompts, media_prompts, idx, ticks, checkpointed,
                   contacted, started, handled>>

\* run_queue_processor 1782-1797: both queue queries, and the early return.
FetchQueues ==
    /\ tpc = "fetch"
    /\ prompts' = GetUnprocessedPrompts
    /\ media_prompts' = IF svc.media_available THEN GetPendingMediaPrompts ELSE <<>>
    /\ idx' = 1
    /\ tpc' = IF prompts' = <<>> /\ media_prompts' = <<>> THEN "release"
              ELSE IF prompts' # <<>> THEN "validate"
              ELSE "media"
    /\ UNCHANGED <<lockVars, storeVars, cfgVars, svc, ticks, checkpointed, contacted, started, handled>>

\* run_queue_processor 1799-1822: check_environment, get_base_url and
\* validate_models (GET <base_url>/models), only when prompts is not empty.
\* "unvalidated": validate_models_on_startup is off.
\* "no_base_url": get_base_url returns nothing for the backend type.
ValidationOutcomes == {"env_failed", "no_base_url", "models_failed", "ok", "unvalidated"}
\* Where the invocation goes after the checks: every failure is a `return`.
AfterValidationSkipText(outcome) ==
    IF outcome \in {"ok", "unvalidated"} THEN "text"
    ELSE IF media_prompts # <<>> THEN "media"
    ELSE "release"
AfterValidation(outcome) ==
    IF outcome \in {"ok", "unvalidated"} THEN "text" ELSE "release"

ValidateEnvironment ==
    /\ tpc = "validate"
    /\ \E outcome \in ValidationOutcomes :
         /\ contacted' = IF outcome \in {"models_failed", "ok"}
                           THEN contacted \cup {"llm"} ELSE contacted
         /\ tpc' = AfterValidation(outcome)
         /\ validation' = IF outcome \in {"ok", "unvalidated"} THEN "passed"
                          ELSE "failed"
    /\ UNCHANGED <<lockVars, storeVars, config, agents, schema, faults, fnVars, svc,
                   prompts, media_prompts, idx, ticks, checkpointed, started,
                   handled>>

(***************************************************************************)
(* run_generation_session (1397-1616).                                     *)
(***************************************************************************)
\* content_type of a writing an agent's tool call saves in a session for a
\* prompt of type ty: generate_image_json / generate_lyrics_json for the
\* structured types, save_to_database (default 'prose') otherwise.
ToolContentType(ty) == IF ty \in StructuredTypes THEN ty ELSE "prose"

\* save_to_sqlite_database: INSERT INTO writings; the notes name prompt p.
SaveWriting(ws, cty, p) ==
    Append(ws, [content_type |-> cty, note_id |-> p, fresh |-> TRUE])

RECURSIVE SaveWritings(_, _, _, _)
SaveWritings(ws, cty, p, n) ==
    IF n = 0 THEN ws ELSE SaveWritings(SaveWriting(ws, cty, p), cty, p, n - 1)

\* 1526-1534: SELECT id FROM writings WHERE content_type = ? AND
\* created_date within the window AND notes LIKE '%Prompt #<p>%' ORDER BY id.
ToolSavedWritings(ws, p, ty) ==
    SelectIds([i \in 1..Len(ws) |-> i],
              {i \in 1..Len(ws) : /\ ws[i].content_type = ty
                                  /\ ws[i].fresh
                                  /\ NotesLike(p, ws[i].note_id)})

\* 1541-1552: for order, writing_id in enumerate(writing_ids): link.
RECURSIVE LinkAll(_, _, _, _)
LinkAll(pw, p, ids, k) ==
    IF k > Len(ids) THEN pw
    ELSE LinkAll(InsertOrIgnore(pw, p, ids[k], k - 1), p, ids, k + 1)

\* 1351-1357: COALESCE(MAX(writing_order), -1) + 1
NextOrder(pw, p) ==
    LET orders == {r.writing_order : r \in {x \in pw : x.prompt_id = p}}
    IN  IF orders = {} THEN 0
        ELSE (CHOOSE m \in orders : \A o \in orders : o <= m) + 1

SetOutputReference(t, p, w) == [t EXCEPT ![p].output_reference = w]

\* 1554-1555: primary_writing_id = writing_ids[-1]
PrimaryWritingIdFirst(ids) == ids[1]
PrimaryWritingId(ids) == ids[Len(ids)]

\* The post-processing of a structured prompt (1513-1606): link the
\* tool-saved writings if the query finds any, else harvest the transcript.
StructuredPostProcessing(t, ws, pw, p, has_json) ==
    LET ty == t[p].prompt_type
        found == ToolSavedWritings(ws, p, ty)
    IN  IF found # <<>>
          THEN [tbl |-> UpdatePromptStatus(
                            SetOutputReference(t, p, PrimaryWritingId(found)),
                            p, "completed", None, "pending"),
                writings |-> ws,
                prompt_writings |-> LinkAll(pw, p, found, 1),
                ret |-> TRUE]
        ELSE IF has_json
          THEN LET ws2 == SaveWriting(ws, ty, p)
                   w == Len(ws2)
               IN  [tbl |-> UpdatePromptStatus(
                                SetOutputReference(t, p, w),
                                p, "completed", None, "pending"),
                    writings |-> ws2,
                    prompt_writings |-> InsertOrIgnore(pw, p, w, NextOrder(pw, p)),
                    ret |-> TRUE]
        ELSE [tbl |-> UpdatePromptStatus(t, p, "failed", MsgJson, None),
              writings |-> ws,
              prompt_writings |-> pw,
              ret |-> FALSE]

\* Regular prompts (1607-1611): `self.update_prompt_status(prompt_id, 'completed')`.
RegularPostProcessing(t, ws, pw, p) ==
    [tbl |-> UpdatePromptStatus(t, p, "completed", None, None),
     writings |-> ws,
     prompt_writings |-> pw,
     ret |-> TRUE]

\* The writes of one handler that fail, by position.  In a session: 1 the
\* update to processing, 2 the post-processing, 3 the update to failed of
\* the except handler.  In process_media_prompt: 1 the first status update,
\* 2 record_prompt_artifacts, 3 the update to completed/ready, 4 the update
\* to failed/error of the except handlers.
SessionWrites == {1, 2, 3}
MediaWrites == {1, 2, 3, 4}
WriteFaults(positions) == IF faults THEN SUBSET positions ELSE {{}}
MsgDb == "database is locked"

\* 1613-1616: `except Exception as e`: update_prompt_status(failed, str(e)),
\* which re-raises when it fails itself.
SessionFailure(t, ws, pw, p, path, msg, hit, wf) ==
    IF 3 \in wf
      THEN [tbl |-> t, writings |-> ws, prompt_writings |-> pw, ret |-> FALSE,
            path |-> path, escaped |-> TRUE, failedw |-> hit \cup {3}]
      ELSE [tbl |-> UpdatePromptStatus(t, p, "failed", msg, None),
            writings |-> ws, prompt_writings |-> pw, ret |-> FALSE,
            path |-> Append(path, "failed"), escaped |-> FALSE, failedw |-> hit]

\* run_generation_session for prompt p: set processing, run the group chat
\* (in which the agents make `calls` saving tool calls, and which raises or
\* not), then the post-processing; an exception marks the prompt failed.
\* wf: the writes that fail.  Returns the tables, the statuses written
\* (path) and whether an exception escaped.  With fewer than MinAgents
\* agents it returns False right after the processing write.
RunGenerationSession(t, ws, pw, p, n, raised, calls, has_json, wf) ==
    LET t1 == UpdatePromptStatus(t, p, "processing", None, None)
        ws1 == SaveWritings(ws, ToolContentType(t[p].prompt_type), p, calls)
        post == IF t[p].prompt_type \in StructuredTypes
                  THEN StructuredPostProcessing(t1, ws1, pw, p, has_json)
                  ELSE RegularPostProcessing(t1, ws1, pw, p)
    IN  IF 1 \in wf
          THEN SessionFailure(t, ws, pw, p, <<>>, MsgDb, {1}, wf)
        ELSE IF n < MinAgents
          THEN [tbl |-> t1, writings |-> ws, prompt_writings |-> pw,
                ret |-> FALSE, path |-> <<"processing">>,
                escaped |-> FALSE, failedw |-> {}]
        ELSE IF raised
          THEN SessionFailure(t1, ws1, pw, p, <<"processing">>, MsgSession, {}, wf)
        ELSE IF 2 \in wf
          THEN SessionFailure(t1, ws1, pw, p, <<"processing">>, MsgDb, {2}, wf)
        ELSE [tbl |-> post.tbl, writings |-> post.writings,
              prompt_writings |-> post.prompt_writings, ret |-> post.ret,
              path |-> <<"processing", post.tbl[p].status>>,
              escaped |-> FALSE, failedw |-> {}]

(***************************************************************************)
(* The media pipeline (src/media/base.py, src/media/utils.py) and          *)
(* process_media_prompt (1618-1720).                                       *)
(***************************************************************************)
\* A snapshot: relative path -> (mtime_ns, size_bytes).
Snapshots == UNION {[S -> Metas] : S \in SUBSET Files}
\* snapshot_files of the run directory <root>/<type>/<id>_<timestamp>, which
\* _create_run_directory has just made.
EmptySnapshot == <<>>

\* detect_new_files: the files of `after` that are new or whose meta differs.
DetectNewFilesOnlyAdded(before, after) == {f \in DOMAIN after : f \notin DOMAIN before}
DetectNewFiles(before, after) ==
    {f \in DOMAIN after : f \notin DOMAIN before \/ before[f] # after[f]}

\* Paths are sequences of components; an absolute path starts with "/".
\* media_output_root: (config_dir / output_directory).resolve().
OutputRoot == <<"/", "GeneratedMedia">>
\* _create_run_directory: output_root / prompt_type / "<prompt_id>_<timestamp>".
RunDirectory(atype, p, ts) == OutputRoot \o <<atype, p, ts>>
IsRelativePath(path) == path = <<>> \/ path[1] # "/"

\* relative_to_root: path.relative_to(root), for a path under root.
RelativeToRootAbsolute(path, root) == path
RelativeToRoot(path, root) == SubSeq(path, Len(root) + 1, Len(path))

\* The MediaArtifact of a new file f of the run directory.
Artifact(atype, p, ts, f) ==
    [artifact_type |-> atype,
     file_path |-> RelativeToRoot(RunDirectory(atype, p, ts) \o <<f>>, OutputRoot)]

\* BaseMediaPipeline.run: run_workflow raises on a timeout or a non-zero
\* exit code; no new file raises too; else one MediaArtifact per new file.
\* Returns the artifacts, or the message of the MediaPipelineError.
PipelineRunUnchecked(atype, p, ts, outcome, after) ==
    IF outcome = "timeout" THEN [error |-> MsgTimeout, artifacts |-> {}]
    ELSE IF outcome = "nonzero" THEN [error |-> MsgExit, artifacts |-> {}]
    ELSE [error |-> None,
          artifacts |-> {Artifact(atype, p, ts, f) :
                             f \in DetectNewFiles(EmptySnapshot, after)}]
PipelineRunExitIgnored(atype, p, ts, outcome, after) ==
    LET new_files == DetectNewFiles(EmptySnapshot, after)
    IN  IF outcome = "timeout" THEN [error |-> MsgTimeout, artifacts |-> {}]
        ELSE IF new_files = {} THEN [error |-> MsgNoArtifacts, artifacts |-> {}]
        ELSE [error |-> None,
              artifacts |-> {Artifact(atype, p, ts, f) : f \in new_files}]
PipelineRun(atype, p, ts, outcome, after) ==
    LET new_files == DetectNewFiles(EmptySnapshot, after)
    IN  IF outcome = "timeout" THEN [error |-> MsgTimeout, artifacts |-> {}]
        ELSE IF outcome = "nonzero" THEN [error |-> MsgExit, artifacts |-> {}]
        ELSE IF new_files = {} THEN [error |-> MsgNoArtifacts, artifacts |-> {}]
        ELSE [error |-> None,
              artifacts |-> {Artifact(atype, p, ts, f) : f \in new_files}]

\* record_prompt_artifacts: one row per artifact.
RecordPromptArtifacts(pa, p, arts) ==
    pa \cup {[prompt_id |-> p, artifact_type |-> a.artifact_type,
              file_path |-> a.file_path] : a \in arts}

\* 1624-1647: no pipeline key for the type, or no pipeline for the key.
UnsupportedUpdateAsError(t, p, msg) == UpdatePromptStatus(t, p, "failed", msg, "error")
UnsupportedUpdate(t, p, msg) == UpdatePromptStatus(t, p, "failed", msg, "unsupported")

\* 1649-1662: the host is still unavailable after the second probe.
HostUnavailableUpdateDeferred(t, p) == t
HostUnavailableUpdate(t, p) == UpdatePromptStatus(t, p, "failed", MsgHost, "error")

\* 1679-1685: summary_metadata
SummaryMetadata == {"artifact_count", "run_directory"}

\* process_media_prompt.  probe_ok: the outcome of the health probe, should
\* one be made; outcome, after: what the script does, should it be run.
\* Returns the new tables, media_available, and what was done.
ProcessMediaPrompt(t, pa, sv, p, ts, probe_ok, outcome, after, wf) ==
    LET ty == t[p].prompt_type
        key == IF ty \in DOMAIN sv.type_map THEN sv.type_map[ty] ELSE None
        probed == ~sv.media_available
        same == [tbl |-> t, prompt_artifacts |-> pa,
                 media_available |-> sv.media_available,
                 probe |-> "none", ran |-> FALSE, ret |-> FALSE,
                 path |-> <<>>, escaped |-> FALSE, failedw |-> {}]
        \* a status update made outside the try block: it raises when it fails
        early(t2) == IF 1 \in wf
                       THEN [same EXCEPT !.escaped = TRUE, !.failedw = {1}]
                       ELSE [same EXCEPT !.tbl = t2, !.path = <<t2[p].status>>]
    IN  IF key = None
          THEN early(UnsupportedUpdate(t, p, MsgNoMap))
        ELSE IF key \notin sv.media_pipelines
          THEN early(UnsupportedUpdate(t, p, MsgNoPipeline))
        ELSE IF probed /\ ~probe_ok
          THEN [early(HostUnavailableUpdate(t, p)) EXCEPT !.probe = "failed"]
        ELSE IF 1 \in wf
          THEN [same EXCEPT !.media_available = TRUE,
                            !.probe = IF probed THEN "ok" ELSE "none",
                            !.escaped = TRUE, !.failedw = {1}]
        ELSE
          LET t1 == UpdatePromptStatus(t, p, "processing", None, "processing")
              run == PipelineRun(key, p, ts, outcome, after)
              ran == [same EXCEPT !.tbl = t1, !.media_available = TRUE,
                                  !.probe = IF probed THEN "ok" ELSE "none",
                                  !.ran = TRUE, !.path = <<"processing">>]
              \* 1699-1718: the except handlers
              handler(r, msg, hit) ==
                  IF 4 \in wf
                    THEN [r EXCEPT !.escaped = TRUE, !.failedw = hit \cup {4}]
                    ELSE [r EXCEPT !.tbl = UpdatePromptStatus(t1, p, "failed", msg, "error"),
                                   !.path = <<"processing", "failed">>,
                                   !.failedw = hit]
              recorded == [ran EXCEPT !.prompt_artifacts =
                                         RecordPromptArtifacts(pa, p, run.artifacts)]
          IN  IF run.error # None THEN handler(ran, run.error, {})
              ELSE IF 2 \in wf THEN handler(ran, MsgDb, {2})
              ELSE IF 3 \in wf THEN handler(recorded, MsgDb, {3})
              ELSE [recorded EXCEPT
                      !.tbl = UpdatePromptStatusMeta(t1, p, "completed", None, "ready",
                                                     <<SummaryMetadata>>),
                      !.path = <<"processing", "completed">>,
                      !.ret = TRUE]

(***************************************************************************)
(* The loops of run_queue_processor (1824-1875).                           *)
(***************************************************************************)
\* The media pass iterates the list fetched at the start of the tick.
MediaPassListRefetched == IF svc.media_available THEN GetPendingMediaPrompts ELSE <<>>
MediaPassList == media_prompts

AfterTextPass == IF MediaPassList # <<>> THEN "media" ELSE "checkpoint"

\* Where the invocation goes after one iteration of a loop over `list`: an
\* exception that escaped the handler leaves the with block (1874-1875).
NextIndex(list, escaped) == IF escaped \/ idx = Len(list) THEN 1 ELSE idx + 1
AfterHandlingNoExit(list, loop, after, escaped) ==
    IF escaped THEN "done"
    ELSE IF idx = Len(list) THEN after
    ELSE loop
AfterHandling(list, loop, after, escaped) ==
    IF escaped THEN "release"
    ELSE IF idx = Len(list) THEN after
    ELSE loop

\* The branch of `for prompt in prompts` (1833-1841) that prompt p takes:
\* a generation session unless p is routed to process_media_prompt.
NeedsSession(p) ==
    \/ tbl[p].prompt_type \in StructuredTypes
    \/ ~(svc.media_enabled /\ tbl[p].prompt_type \in DOMAIN svc.type_map)

\* One iteration of `for prompt in prompts` that runs a generation session:
\* structured types always, other types unless routed to the media pipeline.
TextStepSession ==
    /\ tpc = "text"
    /\ idx <= Len(prompts)
    /\ LET p == prompts[idx]
           ty == tbl[p].prompt_type
       IN  /\ ty \in StructuredTypes \/ ~(svc.media_enabled /\ ty \in DOMAIN svc.type_map)
           /\ \E raised \in BOOLEAN, calls \in 0..MaxCalls, has_json \in BOOLEAN,
                 wf \in WriteFaults(SessionWrites) :
                /\ has_json => ty \in StructuredTypes /\ ~raised
                /\ agents < MinAgents => ~raised /\ calls = 0 /\ ~has_json
                /\ LET r == RunGenerationSession(tbl, writings, prompt_writings,
                                                 p, agents, raised, calls,
                                                 has_json, wf)
                   IN  /\ wf = r.failedw
                       /\ 1 \in wf => ~raised /\ calls = 0 /\ ~has_json
                       /\ tbl' = r.tbl
                       /\ writings' = r.writings
                       /\ prompt_writings' = r.prompt_writings
                       /\ handled' = [handled EXCEPT ![p] =
                                        [kind |-> "session", raised |-> raised,
                                         calls |-> calls, has_json |-> has_json,
                                         ret |-> r.ret,
                                         harvested |->
                                             Len(r.writings) > Len(writings) + calls,
                                         path |-> <<tbl[p].status>> \o r.path,
                                         escaped |-> r.escaped,
                                         failedw |-> r.failedw]]
                       /\ idx' = NextIndex(prompts, r.escaped)
                       /\ tpc' = AfterHandling(prompts, "text", AfterTextPass, r.escaped)
           /\ contacted' = IF agents < MinAgents
                              THEN contacted
                              ELSE contacted \cup {"llm"}
    /\ UNCHANGED <<lockVars, row_order, prompt_artifacts, cfgVars, svc, prompts,
                   media_prompts, ticks, checkpointed, started>>

\* The effect of process_media_prompt(p) on the state, shared by both loops.
MediaHandling(p) ==
    \E probe_ok \in BOOLEAN, outcome \in {"ok", "nonzero", "timeout"},
       after \in Snapshots, wf \in WriteFaults(MediaWrites) :
       \* inputs that are not read are fixed
       /\ (svc.media_available \/ ~config.host) => probe_ok
       /\ outcome # "ok" => after = EmptySnapshot
       /\ LET r == ProcessMediaPrompt(tbl, prompt_artifacts, svc, p, ticks,
                                      probe_ok, outcome, after, wf)
          IN  /\ wf = r.failedw
              /\ r.probe = "failed" => outcome = "ok" /\ after = EmptySnapshot
              /\ (r.probe = "none" /\ ~r.ran) =>
                     probe_ok /\ outcome = "ok" /\ after = EmptySnapshot
              /\ tbl' = r.tbl
              /\ prompt_artifacts' = r.prompt_artifacts
              /\ svc' = [svc EXCEPT !.media_available = r.media_available]
              /\ contacted' = IF r.probe # "none" THEN contacted \cup {"comfyui"}
                              ELSE contacted
              /\ started' = IF r.ran THEN started \cup {p} ELSE started
              /\ handled' = [handled EXCEPT ![p] =
                               [kind |-> "media", probe |-> r.probe, ran |-> r.ran,
                                outcome |-> IF r.ran THEN outcome ELSE "none",
                                after |-> after, ret |-> r.ret,
                                path |-> <<tbl[p].status>> \o r.path,
                                escaped |-> r.escaped,
                                failedw |-> r.failedw]]

\* One iteration of `for prompt in prompts` routed to the media pipeline:
\* `elif self.media_enabled and prompt_type in self.media_prompt_type_map`.
TextStepMedia ==
    /\ tpc = "text"
    /\ idx <= Len(prompts)
    /\ LET p == prompts[idx]
           ty == tbl[p].prompt_type
       IN  /\ ty \notin StructuredTypes
           /\ svc.media_enabled /\ ty \in DOMAIN svc.type_map
           /\ MediaHandling(p)
           /\ idx' = NextIndex(prompts, handled'[p].escaped)
           /\ tpc' = AfterHandling(prompts, "text", AfterTextPass, handled'[p].escaped)
    /\ UNCHANGED <<lockVars, row_order, writings, prompt_writings, cfgVars,
                   prompts, media_prompts, ticks, checkpointed>>

\* One iteration of `for media_prompt in media_prompts`.
MediaStep ==
    /\ tpc = "media"
    /\ idx <= Len(MediaPassList)
    /\ MediaHandling(MediaPassList[idx])
    /\ idx' = NextIndex(MediaPassList, handled'[MediaPassList[idx]].escaped)
    /\ tpc' = AfterHandling(MediaPassList, "media", "checkpoint",
                            handled'[MediaPassList[idx]].escaped)
    /\ UNCHANGED <<lockVars, row_order, writings, prompt_writings, cfgVars,
                   prompts, media_prompts, ticks, checkpointed>>

\* PRAGMA wal_checkpoint(TRUNCATE) at the end of the with block.
Checkpoint ==
    /\ tpc = "checkpoint"
    /\ tpc' = "release"
    /\ checkpointed' = TRUE
    /\ UNCHANGED <<lockVars, storeVars, cfgVars, svc, prompts, media_prompts,
                   idx, ticks, contacted, started, handled>>

\* ProcessLock.__exit__ -> release; run_queue_processor returns.
ReleaseLock ==
    /\ tpc = "release"
    /\ lock_file' = NoFile
    /\ tpc' = "done"
    /\ UNCHANGED <<now, lpc, lock_fd, lock_info, seenStale, storeVars, cfgVars,
                   svc, prompts, media_prompts, idx, ticks, checkpointed, contacted, started,
                   handled>>

\* The process exits.  Before the next invocation the writings may fall out
\* of the `max_processing_time_minutes + 5` window of the tool-saved query.
Exit ==
    /\ tpc = "done"
    /\ tpc' = "idle"
    /\ \E aged \in BOOLEAN :
         writings' = IF aged
                       THEN [i \in 1..Len(writings) |-> [writings[i] EXCEPT !.fresh = FALSE]]
                       ELSE writings
    /\ UNCHANGED <<lockVars, tbl, row_order, prompt_writings, prompt_artifacts,
                   cfgVars, svc, prompts, media_prompts, idx, ticks, checkpointed, contacted,
                   started, handled>>

TickNext ==
    \/ \E p \in PromptIds : SubmitPrompt(p)
    \/ Construct
    \/ AcquireLock
    \/ FetchQueues
    \/ ValidateEnvironment
    \/ TextStepSession
    \/ TextStepMedia
    \/ MediaStep
    \/ Checkpoint
    \/ ReleaseLock
    \/ Exit

\* One orchestrator, one invocation after the other.
Init == LockInit /\ TickInit /\ ~faults /\ NoCalls

Spec == Init /\ [][TickNext]_vars

\* The same ticks under a configuration that may list a single agent.
InitAgents == LockInit /\ TickInitWith(AgentCounts) /\ ~faults /\ NoCalls

SpecAgents == InitAgents /\ [][TickNext]_vars

\* The orchestrator next to a second invocation (process 2) that holds the
\* lock at the start and goes on acquiring and releasing it; media is
\* enabled with both pipelines and a host.
InitBusy ==
    /\ lock_file = [NewFile(2) EXCEPT !.payload = <<LockTimeout>>]
    /\ now = 0
    /\ lpc = [p \in Procs |-> IF p = 2 THEN "work" ELSE "idle"]
    /\ lock_fd = [p \in Procs |-> p = 2]
    /\ lock_info = [p \in Procs |-> NoT]
    /\ seenStale = [p \in Procs |-> NoT]
    /\ TickInit
    /\ ~faults
    /\ NoCalls
    /\ row_order = <<1, 12>>
    /\ config = [enabled |-> TRUE, scripts |-> {"image", "audio"},
                 map_structured |-> TRUE, host |-> TRUE]

BusyNext ==
    \/ TickNext
    \/ StartTick(2)
    \/ CleanupExists(2)
    \/ CleanupRead(2)
    \/ CleanupDecide(2)
    \/ CreateExclusive(2)
    \/ WritePayload(2)
    \/ Release(2)
    \/ ExitBusy(2)

SpecBusy == InitBusy /\ [][BusyNext]_vars

LockNext ==
    \/ \E p \in Procs : StartTick(p)
    \/ \E p \in Procs : CleanupExists(p)
    \/ \E p \in Procs : CleanupRead(p)
    \/ \E p \in Procs : CleanupDecide(p)
    \/ \E p \in Procs : CleanupCorrupt(p)
    \/ \E p \in Procs : CreateExclusive(p)
    \/ \E p \in Procs : WritePayload(p)
    \/ \E p \in Procs : Release(p)
    \/ \E p \in Procs : ExitBusy(p)
    \/ \E p \in Procs : Crash(p)
    \/ AdvanceClock

\* Files found at the lock path when no process runs: none, one that cannot
\* be parsed, one without timeout_at, and one with a timeout_at.
LeftoverFiles ==
    {NoFile} \cup
    { [exists |-> TRUE, creator |-> 1, payload |-> c, orphan |-> TRUE] :
         c \in {Empty, NoTimeoutAt} \cup { <<t>> : t \in 0..LockTimeout } }

\* The lock protocol alone: the store holds no prompt to work on.
InitLock ==
    /\ LockInit
    /\ TickInit
    /\ \A p \in PromptIds : tbl[p].prompt_type = "text"
    /\ row_order = <<1, 12>>
    /\ ~config.enabled
    /\ ~faults
    /\ NoCalls

SpecLock == InitLock /\ [][LockNext]_vars

(***************************************************************************)
(* update_prompt_status alone: any sequence of calls on any rows.          *)
(***************************************************************************)
StatusArgs == {"processing", "completed", "failed"}
ErrorArgs == {None, MsgHost}
ArtifactStatusArgs == {None, "ready", "error"}
MetadataArgs == {NoMetadata} \cup {<<d>> : d \in MetadataDicts}

InitStatus ==
    /\ LockInit
    /\ tbl \in [PromptIds -> [prompt_type : {"image_prompt"},
                              status : {"unprocessed"} \cup StatusArgs,
                              artifact_status : {"pending"},
                              error_message : ErrorArgs,
                              output_reference : {0},
                              artifact_metadata :
                                  {NoMetadata} \cup {JsonDumps(d) : d \in MetadataDicts}]]
    /\ row_order = <<1, 12>>
    /\ writings = <<>>
    /\ prompt_writings = {}
    /\ prompt_artifacts = {}
    /\ config = [enabled |-> FALSE, scripts |-> {}, map_structured |-> FALSE,
                 host |-> FALSE]
    /\ svc = [media_enabled |-> FALSE, media_available |-> FALSE,
              media_pipelines |-> {}, type_map |-> <<>>]
    /\ tpc = "idle"
    /\ prompts = <<>>
    /\ media_prompts = <<>>
    /\ idx = 1
    /\ ticks = 0
    /\ checkpointed = FALSE
    /\ contacted = {}
    /\ started = {}
    /\ handled = [p \in PromptIds |-> NoHandling]
    /\ schema = FullSchema
    /\ faults = FALSE
    /\ validation = "none"
    /\ agents = MinAgents
    /\ NoCalls

\* One call update_prompt_status(p, st, err, artifact_status=art,
\* artifact_metadata=meta); handled[p] records the metadata argument.
UpdateStatusCall ==
    \E p \in PromptIds, st \in StatusArgs, err \in ErrorArgs,
       art \in ArtifactStatusArgs, meta \in MetadataArgs :
       /\ tbl' = UpdatePromptStatusMeta(tbl, p, st, err, art, meta)
       /\ handled' = [q \in PromptIds |->
                        IF q = p THEN [kind |-> "update", meta |-> meta]
                        ELSE NoHandling]
       /\ UNCHANGED <<lockVars, row_order, writings, prompt_writings,
                      prompt_artifacts, cfgVars, svc, tpc, prompts,
                      media_prompts, idx, ticks, checkpointed, contacted, started>>

SpecStatus == InitStatus /\ [][UpdateStatusCall]_vars

(***************************************************************************)
(* The startup migration alone, run repeatedly on any store.               *)
(***************************************************************************)
InitMigrate ==
    /\ LockInit
    /\ schema \in [tables : SUBSET FullSchema.tables,
                   columns : SUBSET FullSchema.columns]
    /\ "prompts" \notin schema.tables => schema.columns = {}
    /\ tbl \in [PromptIds ->
                  [prompt_type : {"image_prompt"},
                   status : {"absent", "completed"},
                   artifact_status : {NoColumn, "ready"},
                   error_message : {None},
                   output_reference : {0, 1, 2},
                   artifact_metadata : {NoColumnMetadata, NoMetadata}]]
    /\ \A p \in PromptIds :
         /\ "prompts" \notin schema.tables => tbl[p].status = "absent"
         /\ tbl[p].status = "absent" => tbl[p].output_reference = 0
         /\ tbl[p].artifact_status = NoColumn
              <=> "artifact_status" \notin schema.columns
         /\ tbl[p].artifact_metadata = NoColumnMetadata
              <=> "artifact_metadata" \notin schema.columns
    /\ row_order = <<1, 12>>
    /\ writings = <<[content_type |-> "image_prompt", note_id |-> 1, fresh |-> FALSE],
                    [content_type |-> "image_prompt", note_id |-> 12, fresh |-> FALSE]>>
    /\ prompt_writings \in
         {{}, {[id |-> 1, prompt_id |-> 1, writing_id |-> 1, writing_order |-> 0]},
              {[id |-> 1, prompt_id |-> 12, writing_id |-> 2, writing_order |-> 0]}}
    /\ "prompt_writings" \notin schema.tables => prompt_writings = {}
    /\ prompt_artifacts = {}
    /\ config \in {c \in Configs : c.host /\ ~c.map_structured}
    /\ faults = FALSE
    /\ validation = "none"
    /\ agents = MinAgents
    /\ NoCalls
    /\ svc = [media_enabled |-> FALSE, media_available |-> FALSE,
              media_pipelines |-> {}, type_map |-> <<>>]
    /\ tpc = "idle"
    /\ prompts = <<>>
    /\ media_prompts = <<>>
    /\ idx = 1
    /\ ticks = 0
    /\ checkpointed = FALSE
    /\ contacted = {}
    /\ started = {}
    /\ handled = [p \in PromptIds |-> NoHandling]

\* One run of the startup migration; handled[p] keeps whether a run has
\* back-filled a junction row for p.
RunMigration ==
    /\ ticks < MaxTicks
    /\ ticks' = ticks + 1
    /\ LET m == StartupMigration([schema |-> schema, tbl |-> tbl,
                                   prompt_writings |-> prompt_writings], config)
       IN  /\ schema' = m.schema
           /\ tbl' = m.tbl
           /\ prompt_writings' = m.prompt_writings
           /\ handled' = [p \in PromptIds |->
                            IF NeedsBackfill(tbl, prompt_writings, p)
                              THEN [kind |-> "backfilled"]
                              ELSE handled[p]]
    /\ UNCHANGED <<lockVars, row_order, writings, prompt_artifacts, config, agents,
                   faults, fnVars, validation, svc, tpc, prompts, media_prompts,
                   idx, checkpointed, contacted, started>>

SpecMigrate == InitMigrate /\ [][RunMigration]_vars

\* The orchestrator on a database whose writes may fail, media enabled with
\* both pipelines and a host.
InitFaults ==
    /\ LockInit
    /\ TickInit
    /\ faults
    /\ NoCalls
    /\ row_order = <<1, 12>>
    /\ config = [enabled |-> TRUE, scripts |-> {"image", "audio"},
                 map_structured |-> TRUE, host |-> TRUE]

SpecFaults == InitFaults /\ [][TickNext]_vars

(***************************************************************************)
(* The orchestrator on a store in which prompt 12 is queued again: it is   *)
(* unprocessed and has an output_reference from an earlier attempt, linked *)
(* in prompt_writings already or (a store from before the junction table)  *)
(* not yet.                                                                *)
(***************************************************************************)
InitRequeue ==
    /\ LockInit
    /\ tbl \in [PromptIds -> [prompt_type : PromptTypes,
                              status : {"unprocessed", "absent"},
                              artifact_status : {"pending"},
                              error_message : {None},
                              output_reference : {0, 1},
                              artifact_metadata : {NoMetadata}]]
    /\ tbl[12].status = "unprocessed"
    /\ tbl[12].prompt_type = "image_prompt"
    /\ tbl[12].output_reference = 1
    /\ tbl[1].output_reference = 0
    /\ row_order \in {<<1, 12>>, <<12, 1>>}
    /\ writings = <<[content_type |-> "image_prompt", note_id |-> 12, fresh |-> FALSE]>>
    /\ prompt_writings \in
         {{}, {[id |-> 1, prompt_id |-> 12, writing_id |-> 1, writing_order |-> 0]}}
    /\ prompt_artifacts = {}
    /\ config \in {c \in Configs : c.enabled /\ c.host /\ c.scripts = {"image", "audio"}}
    /\ svc = [media_enabled |-> FALSE, media_available |-> FALSE,
              media_pipelines |-> {}, type_map |-> <<>>]
    /\ tpc = "idle"
    /\ prompts = <<>>
    /\ media_prompts = <<>>
    /\ idx = 1
    /\ ticks = 0
    /\ checkpointed = FALSE
    /\ contacted = {}
    /\ started = {}
    /\ handled = [p \in PromptIds |-> NoHandling]
    /\ schema = FullSchema
    /\ faults = FALSE
    /\ validation = "none"
    /\ agents = MinAgents
    /\ NoCalls

SpecRequeue == InitRequeue /\ [][TickNext]_vars

(***************************************************************************)
(* The two queue queries and the two loops of run_queue_processor on a     *)
(* queue longer than LIMIT 5.                                              *)
(***************************************************************************)
\* Rows of the prompts table of this specification.
MaxQueue == 6
QueueIds == 1..MaxQueue

\* A row is unprocessed, or a structured prompt waiting for its media, or
\* failed.
QueueRowKinds ==
    {[status |-> "unprocessed", artifact_status |-> "pending", prompt_type |-> "text"],
     [status |-> "completed", artifact_status |-> "pending", prompt_type |-> "image_prompt"],
     [status |-> "failed", artifact_status |-> "pending", prompt_type |-> "text"]}

\* rank[p]: the position of row p in ascending (priority, created_at).
QueueRanks ==
    {[p \in QueueIds |-> p],
     [p \in QueueIds |-> MaxQueue + 1 - p],
     [p \in QueueIds |-> (p % MaxQueue) + 1]}

\* ORDER BY priority ASC, created_at ASC: the ids by rank.
OrderBy(rank) ==
    [k \in 1..Cardinality(DOMAIN rank) |-> CHOOSE p \in DOMAIN rank : rank[p] = k]

InitQueue ==
    /\ LockInit
    /\ TickInit
    /\ ~faults
    /\ ~config.enabled
    /\ row_order = <<1, 12>>
    /\ \A p \in PromptIds : tbl[p].prompt_type = "text" /\ tbl[p].status = "unprocessed"
    /\ retry = NoCall
    /\ snap = NoCall
    /\ queue \in [kind : {"pending"}, rows0 : [QueueIds -> QueueRowKinds],
                  rows : [QueueIds -> QueueRowKinds], rank : QueueRanks,
                  text : {<<>>}, media : {<<>>}, done : {<<>>}]
    /\ queue.rows = queue.rows0

\* run_queue_processor 1782-1787: both queries, at the start of the tick.
FetchQueued ==
    /\ queue.kind = "pending"
    /\ queue' = [queue EXCEPT
                   !.kind = "fetched",
                   !.text = UnprocessedIn(OrderBy(queue.rank), queue.rows),
                   !.media = PendingMediaIn(OrderBy(queue.rank), queue.rows)]
    /\ UNCHANGED <<lockVars, storeVars, config, agents, schema, faults, validation,
                   retry, snap, svc, tpc, prompts, media_prompts, idx, ticks,
                   checkpointed, contacted, started, handled>>

\* One iteration of `for prompt in prompts` (1825-1848), then of
\* `for media_prompt in media_prompts` (1851-1859): the prompt handled ends
\* completed, with its media ready when this is the media loop.
HandleQueued ==
    /\ queue.kind = "fetched"
    /\ Len(queue.done) < Len(queue.text) + Len(queue.media)
    /\ LET k == Len(queue.done) + 1
           in_text == k <= Len(queue.text)
           p == IF in_text THEN queue.text[k] ELSE queue.media[k - Len(queue.text)]
       IN  queue' = [queue EXCEPT
                       !.done = Append(@, p),
                       !.rows[p].status = "completed",
                       !.rows[p].artifact_status =
                           IF in_text THEN @ ELSE "ready"]
    /\ UNCHANGED <<lockVars, storeVars, config, agents, schema, faults, validation,
                   retry, snap, svc, tpc, prompts, media_prompts, idx, ticks,
                   checkpointed, contacted, started, handled>>

QueueNext == FetchQueued \/ HandleQueued
SpecQueue == InitQueue /\ [][QueueNext]_vars

(***************************************************************************)
(* The lock protocol with holders that call release() twice in a row.      *)
(***************************************************************************)
\* release(): close the descriptor if there is one, unlink the path if it
\* exists; `except Exception` prints and returns.  fd: self.lock_fd is not
\* None.  Returns the descriptor, the file at the path and whether the call
\* raised.
\* The lock protocol started on a path that may hold a leftover file.
InitLeftover ==
    /\ lock_file \in LeftoverFiles
    /\ now = 0
    /\ lpc = [p \in Procs |-> "idle"]
    /\ lock_fd = [p \in Procs |-> FALSE]
    /\ lock_info = [p \in Procs |-> NoT]
    /\ seenStale = [p \in Procs |-> NoT]
    /\ TickInit
    /\ \A p \in PromptIds : tbl[p].prompt_type = "text"
    /\ row_order = <<1, 12>>
    /\ ~config.enabled
    /\ ~faults
    /\ NoCalls

SpecLeftover == InitLeftover /\ [][LockNext]_vars

ReleaseCallUnchecked(fd, file) ==
    [fd |-> FALSE, file |-> NoFile, raised |-> ~fd \/ ~file.exists]
ReleaseCall(fd, file) ==
    [fd |-> FALSE,
     file |-> IF file.exists THEN NoFile ELSE file,
     raised |-> FALSE]

\* The first call of release() by holder p.
ReleaseFirst(p) ==
    /\ lpc[p] = "work"
    /\ LET r == ReleaseCall(lock_fd[p], lock_file)
       IN  /\ lock_fd' = [lock_fd EXCEPT ![p] = r.fd]
           /\ lock_file' = r.file
           /\ lpc' = [lpc EXCEPT ![p] = IF r.raised THEN "raised" ELSE "released"]
    /\ UNCHANGED <<now, lock_info, seenStale>>
    /\ UNCHANGED <<storeVars, tickVars>>

\* The second call of release() by p, with whatever the other process did
\* in between.
ReleaseSecond(p) ==
    /\ lpc[p] = "released"
    /\ LET r == ReleaseCall(lock_fd[p], lock_file)
       IN  /\ lock_fd' = [lock_fd EXCEPT ![p] = r.fd]
           /\ lock_file' = r.file
           /\ lpc' = [lpc EXCEPT ![p] = IF r.raised THEN "raised" ELSE "released twice"]
    /\ UNCHANGED <<now, lock_info, seenStale>>
    /\ UNCHANGED <<storeVars, tickVars>>

\* The process that released twice exits.
ExitReleased(p) ==
    /\ lpc[p] = "released twice"
    /\ lpc' = [lpc EXCEPT ![p] = "idle"]
    /\ UNCHANGED <<lock_file, now, lock_fd, lock_info, seenStale>>
    /\ UNCHANGED <<storeVars, tickVars>>

ReleaseNext ==
    \/ LockNext
    \/ \E p \in Procs : ReleaseFirst(p)
    \/ \E p \in Procs : ReleaseSecond(p)
    \/ \E p \in Procs : ExitReleased(p)

InitRelease ==
    /\ LockInit
    /\ TickInit
    /\ \A p \in PromptIds : tbl[p].prompt_type = "text" /\ tbl[p].status = "unprocessed"
    /\ row_order = <<1, 12>>
    /\ ~config.enabled
    /\ ~faults
    /\ NoCalls

SpecRelease == InitRelease /\ [][ReleaseNext]_vars

(***************************************************************************)
(* The lock protocol on a file system whose os.open / os.write may fail.   *)
(***************************************************************************)
\* Exceptions os.open(O_CREAT | O_EXCL) and os.write raise for a reason
\* other than an existing file.
IoErrors == {"PermissionError", "OSError"}

\* acquire(): `except FileExistsError: return False` and
\* `except Exception as e: ... return False`.
AcquireReturn(exc) == IF exc = "FileExistsError" THEN FALSE ELSE FALSE
\* __enter__: `if not self.acquire(): raise RuntimeError(...)`.
EnterRaises(acquired) == IF acquired THEN None ELSE "RuntimeError"
\* run_queue_processor: `except RuntimeError` logs "Skipping execution",
\* `except Exception` logs "Error in queue processor".
TickOutcome(raised) == IF raised = "RuntimeError" THEN "busy" ELSE "fatal"

\* os.open raises although no file is at the path.
CreateFails(p) ==
    /\ lpc[p] = "create"
    /\ ~lock_file.exists
    /\ \E exc \in IoErrors :
         lpc' = [lpc EXCEPT ![p] = TickOutcome(EnterRaises(AcquireReturn(exc)))]
    /\ UNCHANGED <<lock_file, now, lock_fd, lock_info, seenStale>>
    /\ UNCHANGED <<storeVars, tickVars>>

\* os.write / os.fsync raises: acquire returns False with the file created
\* and nobody left to release it (the descriptor closes when the process
\* exits).
WriteFails(p) ==
    /\ lpc[p] = "write"
    /\ \E exc \in IoErrors :
         lpc' = [lpc EXCEPT ![p] = TickOutcome(EnterRaises(AcquireReturn(exc)))]
    /\ lock_fd' = [lock_fd EXCEPT ![p] = FALSE]
    /\ lock_file' = IF IsOwnFile(p)
                      THEN [lock_file EXCEPT !.orphan = TRUE]
                      ELSE lock_file
    /\ UNCHANGED <<now, lock_info, seenStale>>
    /\ UNCHANGED <<storeVars, tickVars>>

AcquireNext ==
    \/ LockNext
    \/ \E p \in Procs : CreateFails(p)
    \/ \E p \in Procs : WriteFails(p)

InitAcquire ==
    /\ LockInit
    /\ TickInit
    /\ \A p \in PromptIds : tbl[p].prompt_type = "text" /\ tbl[p].status = "unprocessed"
    /\ row_order = <<1, 12>>
    /\ ~config.enabled
    /\ ~faults
    /\ NoCalls

SpecAcquire == InitAcquire /\ [][AcquireNext]_vars

(***************************************************************************)
(* retry_database_operation (src/tools.py 52-67) alone.                    *)
(***************************************************************************)
\* max_retries=3
MaxRetries == 3
\* Attempts whose outcome is drawn, one more than the wrapper may use.
MaxAttempts == 4

\* What one call of func() does: it returns, or raises
\* sqlite3.OperationalError with or without "locked" in its message, or
\* raises another exception (whose message may say "locked" as well).
AttemptOutcomes == {"ok", "op_locked", "op_other", "other_locked"}
IsOperationalError(o) == o \in {"op_locked", "op_other"}
MentionsLocked(o) == o \in {"op_locked", "other_locked"}

\* `"locked" in str(e).lower() and attempt < max_retries - 1` inside
\* `except sqlite3.OperationalError`; attempt counts from 0.
ShouldRetryUnbounded(o, attempt) == IsOperationalError(o) /\ MentionsLocked(o)
ShouldRetry(o, attempt) ==
    IsOperationalError(o) /\ MentionsLocked(o) /\ attempt < MaxRetries - 1

\* `for attempt in range(max_retries)`: the loop from iteration `attempt`
\* on; outcomes[i] is what the i-th call of func() does.  A loop that runs
\* out returns None.
RECURSIVE RetryFrom(_, _)
RetryFrom(outcomes, attempt) ==
    IF attempt >= MaxRetries
      THEN [kind |-> "returned", value |-> 0, calls |-> attempt]
    ELSE IF outcomes[attempt + 1] = "ok"
      THEN [kind |-> "returned", value |-> attempt + 1, calls |-> attempt + 1]
    ELSE IF ShouldRetry(outcomes[attempt + 1], attempt)
      THEN RetryFrom(outcomes, attempt + 1)
    ELSE [kind |-> "raised", value |-> attempt + 1, calls |-> attempt + 1]

RetryDatabaseOperation(outcomes) == RetryFrom(outcomes, 0)

InitRetry ==
    /\ LockInit
    /\ TickInit
    /\ ~faults
    /\ ~config.enabled
    /\ row_order = <<1, 12>>
    /\ \A p \in PromptIds : tbl[p].prompt_type = "text" /\ tbl[p].status = "unprocessed"
    /\ snap = NoCall
    /\ queue = NoCall
    /\ retry \in [kind : {"pending"},
                  outcomes : [1..MaxAttempts -> AttemptOutcomes]]

\* One call retry_database_operation(func): the i-th call of func returns
\* the value i.
CallRetry ==
    /\ retry.kind = "pending"
    /\ retry' = [kind |-> "called", outcomes |-> retry.outcomes,
                 result |-> RetryDatabaseOperation(retry.outcomes)]
    /\ UNCHANGED <<lockVars, storeVars, config, agents, schema, faults, validation, snap, queue, svc, tpc,
                   prompts, media_prompts, idx, ticks, checkpointed, contacted,
                   started, handled>>

SpecRetry == InitRetry /\ [][CallRetry]_vars

(***************************************************************************)
(* snapshot_files / detect_new_files (src/media/utils.py 29-60) alone,     *)
(* on a directory that changes between the snapshot and the diff.          *)
(***************************************************************************)
\* Changes made to the directory between the snapshot and the diff.
MaxOps == 2
\* (mtime_ns, size_bytes) pairs of the files of the directory.
DetectMetas == {<<1, 1>>, <<1, 2>>, <<2, 1>>}
\* The entries rglob("*") may yield: the files and one sub-directory.
SubDir == "sub"
DirEntry == [is_file : {TRUE}, meta : DetectMetas] \cup
            {[is_file |-> FALSE, meta |-> <<1, 1>>]}
Dirs == UNION {[S -> DirEntry] : S \in SUBSET (Files \cup {SubDir})}

\* snapshot_files: relative path -> (st_mtime_ns, st_size) of every entry
\* under root that is a file.
SnapshotFiles(dir) ==
    [f \in {x \in DOMAIN dir : dir[x].is_file} |-> dir[f].meta]

\* detect_new_files(root, before) on the directory as it is now.
DetectNewFilesIn(dir, before) == DetectNewFiles(before, SnapshotFiles(dir))

InitDetect ==
    /\ LockInit
    /\ TickInit
    /\ ~faults
    /\ ~config.enabled
    /\ row_order = <<1, 12>>
    /\ \A p \in PromptIds : tbl[p].prompt_type = "text" /\ tbl[p].status = "unprocessed"
    /\ retry = NoCall
    /\ queue = NoCall
    /\ \E d \in Dirs :
         /\ \A x \in DOMAIN d : d[x].is_file <=> x \in Files
         /\ snap = [kind |-> "taken", dir |-> d, before |-> SnapshotFiles(d),
                    ops |-> <<>>]

\* The workflow script (or anything else) changes the directory: it creates
\* a file or a sub-directory, rewrites a file, or removes an entry.
ChangeDirectory ==
    /\ snap.kind = "taken"
    /\ Len(snap.ops) < MaxOps
    /\ \E x \in Files \cup {SubDir}, m \in DetectMetas :
         \/ /\ x \notin DOMAIN snap.dir
            /\ x = SubDir => m = <<1, 1>>
            /\ snap' = [snap EXCEPT
                          !.dir = [y \in DOMAIN snap.dir \cup {x} |->
                                     IF y = x THEN [is_file |-> x \in Files, meta |-> m]
                                     ELSE snap.dir[y]],
                          !.ops = Append(@, <<"create", x>>)]
         \/ /\ x \in DOMAIN snap.dir /\ snap.dir[x].is_file
            /\ m # snap.dir[x].meta
            /\ snap' = [snap EXCEPT !.dir[x].meta = m,
                                    !.ops = Append(@, <<"write", x>>)]
         \/ /\ x \in DOMAIN snap.dir
            /\ m = <<1, 1>>
            /\ snap' = [snap EXCEPT
                          !.dir = [y \in DOMAIN snap.dir \ {x} |-> snap.dir[y]],
                          !.ops = Append(@, <<"remove", x>>)]
    /\ UNCHANGED <<lockVars, storeVars, config, agents, schema, faults, validation, retry, queue, svc, tpc,
                   prompts, media_prompts, idx, ticks, checkpointed, contacted,
                   started, handled>>

\* new_files, after = detect_new_files(root, before)
CallDetect ==
    /\ snap.kind = "taken"
    /\ snap' = [kind |-> "diffed", dir |-> snap.dir, before |-> snap.before,
                ops |-> snap.ops,
                new_files |-> DetectNewFilesIn(snap.dir, snap.before)]
    /\ UNCHANGED <<lockVars, storeVars, config, agents, schema, faults, validation, retry, queue, svc, tpc,
                   prompts, media_prompts, idx, ticks, checkpointed, contacted,
                   started, handled>>

DetectNext == ChangeDirectory \/ CallDetect
SpecDetect == InitDetect /\ [][DetectNext]_vars

\* acquire() returned True and release() has not run: p is in the tick body.
HoldsLock(p) == lpc[p] = "work"

(***************************************************************************)
(* C1. For every interleaving of the acquire steps of two processes, at    *)
(* most one process holds the lock at any instant (of two concurrent       *)
(* ticks at most one goes on to dequeue prompts).                          *)
(***************************************************************************)
C1_AtMostOneHolder == Cardinality({p \in Procs : HoldsLock(p)}) <= 1

(***************************************************************************)
(* C2. When a holder was terminated without releasing and the clock has    *)
(* passed the timeout_at in its lock file, an acquire attempt begun then   *)
(* removes that file at its stale check and is never turned away by it: if *)
(* it ends busy, a newer lock is in place.                                 *)
(***************************************************************************)
C2_StaleLockReclaimed ==
    [][\A p \in Procs :
          /\ ( /\ lpc[p] = "decide" /\ lpc'[p] = "create"
               /\ seenStale[p] # NoT
               /\ lock_info[p] = seenStale[p] )
             => lock_file' = NoFile
          /\ ( /\ lpc[p] = "create" /\ lpc'[p] = "busy"
               /\ seenStale[p] # NoT )
             => lock_file.payload # seenStale[p]
      ]_vars

\* An attempt that began on a crashed holder's expired lock is in the tick.
C2_Witness == \E p \in Procs : seenStale[p] # NoT /\ HoldsLock(p)

(***************************************************************************)
(* C3. A lock whose holder is still running its tick is never removed or   *)
(* taken over by another process's acquire: while a process is in its tick *)
(* the file at the path is the one it created.                             *)

(***************************************************************************)
(* C3. The timeout reclaims only the locks of crashed holders: whenever    *)
(* the stale check of an acquire removes a lock file because its           *)
(* timeout_at has passed, the process that created the file was terminated *)
(* without releasing; a holder still running its tick keeps its file.      *)
(***************************************************************************)
C3_TimeoutReclaimsOnlyCrashed ==
    [][\A p \in Procs :
          ( /\ lpc[p] = "decide" /\ lpc'[p] = "create"
            /\ lock_file.exists /\ lock_file' = NoFile )
          => lock_file.orphan
      ]_vars

(***************************************************************************)
(* The history of one invocation, read by the claims below.                *)
(***************************************************************************)
\* The invocation has left the loops of run_queue_processor.
TickOver == tpc \in {"checkpoint", "release", "done"}
InList(sq, p) == \E i \in 1..Len(sq) : sq[i] = p
CompletedPending(p) ==
    tbl[p].status = "completed" /\ tbl[p].artifact_status = "pending"
Linked(p) == \E r \in prompt_writings : r.prompt_id = p
\* error messages that contain the word "unavailable"
MentionsUnavailable == {MsgNoPipeline, MsgHost}

(***************************************************************************)
(* C4. An invocation in which both queue queries return no rows contacts   *)
(* no LLM endpoint and no media endpoint, service construction included.   *)
(***************************************************************************)
C4_EmptyQueuesContactNothing ==
    ( /\ tpc = "done"
      /\ prompts = <<>> /\ media_prompts = <<>>
      /\ GetUnprocessedPrompts = <<>> /\ GetPendingMediaPrompts = <<>> )
    => contacted = {}

(***************************************************************************)
(* C5. The text pass precedes the media pass (while the text loop runs no  *)
(* prompt of the media list has been handled), and a structured prompt of  *)
(* the text list is handled by a generation session only, never by the     *)
(* media pipeline in the same invocation: if its session succeeded the     *)
(* prompt is still completed/pending when the invocation ends.             *)
(***************************************************************************)
C5_TextPassThenMediaNextTick ==
    /\ tpc = "text" =>
         \A i \in 1..Len(media_prompts) : handled[media_prompts[i]] = NoHandling
    /\ \A p \in PromptIds :
         ( /\ InList(prompts, p)
           /\ tbl[p].prompt_type \in StructuredTypes
           /\ handled[p] # NoHandling )
         => /\ handled[p].kind = "session"
            /\ p \notin started
            /\ handled[p].ret => CompletedPending(p)

\* An invocation with both passes has ended: one structured prompt got its
\* JSON in the text pass, another prompt went through the media pass.
C5_Witness ==
    /\ tpc = "done"
    /\ \E p, q \in PromptIds :
         /\ InList(prompts, p) /\ tbl[p].prompt_type \in StructuredTypes
         /\ handled[p].kind = "session" /\ handled[p].ret
         /\ InList(media_prompts, q) /\ handled[q].kind = "media"

(***************************************************************************)
(* C6. An image_prompt left at completed/pending that a later invocation   *)
(* takes through the media pass, with a healthy host and an image pipeline *)
(* whose script writes a file, ends completed/ready with an artifact row   *)
(* under image/<id>_<ts>/.                                                 *)
(***************************************************************************)
C6_ImagePromptRendered ==
    \A p \in PromptIds :
       ( /\ InList(media_prompts, p)
         /\ tbl[p].prompt_type = "image_prompt"
         /\ handled[p].kind = "media"
         /\ "image" \in svc.media_pipelines
         /\ config.host
         /\ handled[p].probe # "failed"
         /\ handled[p].ran => ( /\ handled[p].outcome = "ok"
                                /\ handled[p].after # EmptySnapshot ) )
       => /\ tbl[p].status = "completed"
          /\ tbl[p].artifact_status = "ready"
          /\ \E r \in prompt_artifacts, f \in Files :
               /\ r.prompt_id = p
               /\ r.file_path = <<"image", p, ticks, f>>

(***************************************************************************)
(* C7. A prompt of type 'text' whose generation session succeeded (the     *)
(* agents saved a writing) is completed and has a prompt_writings row.     *)
(***************************************************************************)
C7_TextPromptLinked ==
    \A p \in PromptIds :
       ( /\ tbl[p].prompt_type = "text"
         /\ handled[p].kind = "session"
         /\ handled[p].ret
         /\ handled[p].calls >= 1 )
       => tbl[p].status = "completed" /\ Linked(p)

(***************************************************************************)
(* C8. An image_prompt whose agents never call generate_image_json and     *)
(* whose transcript holds no JSON ends failed with the JSON extraction     *)
(* error message, and no writing is linked to it.                          *)
(***************************************************************************)
C8_NoJsonFails ==
    \A p \in PromptIds :
       ( /\ tbl[p].prompt_type = "image_prompt"
         /\ handled[p].kind = "session"
         /\ ~handled[p].raised
         /\ handled[p].calls = 0
         /\ ~handled[p].has_json )
       => /\ tbl[p].status = "failed"
          /\ tbl[p].error_message = MsgJson
          /\ ~Linked(p)

(***************************************************************************)
(* C9. A 'music' prompt handled while the health probe of the media host   *)
(* fails ends failed with artifact_status error and an error_message that  *)
(* contains "unavailable", and its media subprocess is never started.      *)
(***************************************************************************)
C9_HostDownFailsMusic ==
    \A p \in PromptIds :
       ( /\ tbl[p].prompt_type = "music"
         /\ handled[p].kind = "media"
         /\ handled[p].probe = "failed" )
       => /\ tbl[p].status = "failed"
          /\ tbl[p].artifact_status = "error"
          /\ tbl[p].error_message \in MentionsUnavailable
          /\ p \notin started

\* The text loop routed a music prompt to the media pipeline of a host that
\* answered neither the probe at construction nor the one made for it.
C9_Witness ==
    \E p \in PromptIds :
       /\ tbl[p].prompt_type = "music"
       /\ InList(prompts, p)
       /\ handled[p].kind = "media"
       /\ handled[p].probe = "failed"
       /\ contacted = {"comfyui"}
       /\ TickOver

(***************************************************************************)
(* C10. When the media script exits with status 0 and its run directory    *)
(* holds no file that is new or changed since the snapshot taken before    *)
(* the run, the prompt ends failed with artifact_status error and the      *)
(* "No artifacts" message, and no artifact row is recorded for the run.    *)
(***************************************************************************)
C10_NoArtifactsFails ==
    \A p \in PromptIds :
       ( /\ handled[p].kind = "media"
         /\ handled[p].ran
         /\ handled[p].outcome = "ok"
         /\ \A f \in DOMAIN handled[p].after :
               /\ f \in DOMAIN EmptySnapshot
               /\ EmptySnapshot[f] = handled[p].after[f] )
       => /\ tbl[p].status = "failed"
          /\ tbl[p].artifact_status = "error"
          /\ tbl[p].error_message = MsgNoArtifacts
          /\ ~\E r \in prompt_artifacts :
                 r.prompt_id = p /\ r.file_path[3] = ticks

\* The subprocess of a prompt was started, exited 0 and left nothing.
C10_Witness ==
    \E p \in PromptIds :
       /\ p \in started
       /\ handled[p].kind = "media"
       /\ handled[p].outcome = "ok"
       /\ handled[p].after = EmptySnapshot
       /\ TickOver

(***************************************************************************)
(* C11. Every prompt of a structured type (image_prompt, lyrics_prompt)    *)
(* whose status is completed has at least one row in prompt_writings.      *)
(***************************************************************************)
C11_CompletedStructuredLinked ==
    \A p \in PromptIds :
       ( /\ tbl[p].prompt_type \in StructuredTypes
         /\ tbl[p].status = "completed" )
       => Linked(p)

\* A session has just left a structured prompt completed/pending and linked.
C11_Witness ==
    \E p \in PromptIds :
       /\ tbl[p].prompt_type \in StructuredTypes
       /\ handled[p].kind = "session" /\ handled[p].ret
       /\ CompletedPending(p)
       /\ Linked(p)

(***************************************************************************)
(* C12. For every completed structured prompt, output_reference is the     *)
(* writing of the prompt_writings row linked last to the prompt (the row   *)
(* with the greatest row id), also when one session saved several          *)
(* writings.                                                               *)
(***************************************************************************)
C12_OutputReferenceIsLastLinked ==
    \A p \in PromptIds :
       ( /\ tbl[p].prompt_type \in StructuredTypes
         /\ tbl[p].status = "completed" )
       => \E r \in prompt_writings :
             /\ r.prompt_id = p
             /\ r.writing_id = tbl[p].output_reference
             /\ \A r2 \in prompt_writings : r2.prompt_id = p => r2.id <= r.id

\* A session with two generate_*_json calls linked two writings to a prompt.
C12_Witness ==
    \E p \in PromptIds :
       /\ tbl[p].prompt_type \in StructuredTypes
       /\ tbl[p].status = "completed"
       /\ handled[p].kind = "session" /\ handled[p].calls >= 2
       /\ Cardinality({r \in prompt_writings : r.prompt_id = p}) >= 2

(***************************************************************************)
(* C13. Every prompt at status completed with artifact_status ready has at *)
(* least one row in prompt_artifacts, and the file_path of each of its     *)
(* rows is relative and lies under the media output root (it starts with   *)
(* the directory of its artifact type).                                    *)
(***************************************************************************)
C13_ReadyHasRelativeArtifacts ==
    \A p \in PromptIds :
       ( /\ tbl[p].status = "completed"
         /\ tbl[p].artifact_status = "ready" )
       => /\ \E r \in prompt_artifacts : r.prompt_id = p
          /\ \A r \in prompt_artifacts :
                r.prompt_id = p =>
                   /\ IsRelativePath(r.file_path)
                   /\ r.file_path[1] = r.artifact_type
                   /\ OutputRoot \o r.file_path
                        = RunDirectory(r.artifact_type, p, r.file_path[3])
                            \o <<r.file_path[4]>>

\* A media run that left two files has set its prompt completed/ready.
C13_Witness ==
    \E p \in PromptIds :
       /\ tbl[p].status = "completed"
       /\ tbl[p].artifact_status = "ready"
       /\ handled[p].kind = "media" /\ handled[p].ret
       /\ Cardinality({r \in prompt_artifacts : r.prompt_id = p}) >= 2

(***************************************************************************)
(* C14. A call of update_prompt_status changes the stored                  *)
(* artifact_metadata of a prompt only if it is given an artifact_metadata  *)
(* value, and then stores that value; every other call, whatever its       *)
(* status argument, leaves the stored value as it was.                     *)
(***************************************************************************)
C14_MetadataKeptUnlessGiven ==
    [][\A p \in PromptIds :
          tbl'[p].artifact_metadata # tbl[p].artifact_metadata
          => /\ handled'[p].kind = "update"
             /\ handled'[p].meta # NoMetadata
             /\ tbl'[p].artifact_metadata = JsonDumps(handled'[p].meta[1])
      ]_vars

\* A call without artifact_metadata moved a prompt that has metadata stored
\* to failed.
C14_Witness ==
    \E p \in PromptIds :
       /\ handled[p].kind = "update"
       /\ handled[p].meta = NoMetadata
       /\ tbl[p].status = "failed"
       /\ tbl[p].artifact_metadata = JsonDumps(SummaryMetadata)

(***************************************************************************)
(* C15. The startup migration is idempotent: a run made after a run has    *)
(* completed changes neither the schema nor any row of prompts,            *)
(* prompt_writings or prompt_artifacts.                                    *)
(***************************************************************************)
C15_MigrationIdempotent ==
    [][ticks >= 1 =>
          /\ schema' = schema
          /\ tbl' = tbl
          /\ prompt_writings' = prompt_writings
          /\ prompt_artifacts' = prompt_artifacts
      ]_vars

\* Two runs were made on a store that lacked the media columns and a
\* junction row: the first added the columns and back-filled the row.
C15_Witness ==
    /\ ticks = 2
    /\ schema = FullSchema
    /\ \E p \in PromptIds :
         /\ handled[p].kind = "backfilled"
         /\ tbl[p].artifact_status = "pending"
         /\ \E r \in prompt_writings :
               r.prompt_id = p /\ r.writing_id = tbl[p].output_reference


(***************************************************************************)
(* C16. Every change the orchestrator makes to a prompt's status is        *)
(* monotone forward: along the statuses one handler call writes, starting  *)
(* from the status it found, the rank never decreases.                     *)
(***************************************************************************)
C16_StatusMonotoneForward ==
    LET Rank(st) == CASE st = "unprocessed" -> 0
                      [] st = "processing" -> 1
                      [] OTHER -> 2
    IN  \A p \in PromptIds :
           handled[p].kind \in {"session", "media"}
           => \A i \in 1..(Len(handled[p].path) - 1) :
                 Rank(handled[p].path[i]) <= Rank(handled[p].path[i + 1])

(***************************************************************************)
(* C17. A failure while handling one prompt never aborts the tick: once    *)
(* the loops have handled some prompt and the tick has left them, every    *)
(* prompt selected at the start of the tick has been handled.              *)
(***************************************************************************)
C17_FailureNeverAbortsTick ==
    ( /\ tpc \in {"release", "done"}
      /\ \E p \in PromptIds : handled[p].kind # "none" )
    => \A q \in PromptIds :
          InList(prompts, q) \/ InList(media_prompts, q)
          => handled[q].kind # "none"

(***************************************************************************)
(* C18. The environment check and the model validation run in a tick only  *)
(* when at least one fetched prompt needs an LLM session; a tick whose     *)
(* only unprocessed prompts are direct media prompts performs neither.     *)
(***************************************************************************)
C18_ValidationOnlyForSessions ==
    tpc = "validate" => \E i \in 1..Len(prompts) : NeedsSession(prompts[i])

(***************************************************************************)
(* C19. When the media health probe fails, every media item is deferred:   *)
(* the handling leaves its status as it found it and its artifact_status   *)
(* pending.                                                                *)
(***************************************************************************)
C19_ProbeFailureDefers ==
    \A p \in PromptIds :
       ( /\ handled[p].kind = "media"
         /\ handled[p].probe = "failed" )
       => /\ tbl[p].status = handled[p].path[1]
          /\ tbl[p].artifact_status = "pending"

(***************************************************************************)
(* C20. Every tick that acquired the lock has forced the truncating WAL    *)
(* checkpoint by the time the lock is released.                            *)
(***************************************************************************)
C20_CheckpointBeforeRelease == tpc = "done" => checkpointed

(***************************************************************************)
(* C21. retry_database_operation calls the operation at most 3 times,      *)
(* retries only after a "database is locked" error, returns the result of  *)
(* the first successful attempt, re-raises the locked error when the third *)
(* attempt also fails, and propagates any other error after one attempt.   *)
(***************************************************************************)
C21_RetryAtMostThreeLocked ==
    retry.kind = "called" =>
       LET o == retry.outcomes
           r == retry.result
       IN  /\ r.calls \in 1..MaxRetries
           /\ \A i \in 1..(r.calls - 1) : o[i] = "op_locked"
           /\ r.value = r.calls
           /\ o[r.calls] = "ok" <=> r.kind = "returned"
           /\ (o[r.calls] = "op_locked" /\ r.kind = "raised") => r.calls = MaxRetries
           /\ o[1] \in {"op_other", "other_locked"} => r.kind = "raised" /\ r.calls = 1

\* Two locked attempts and a third that succeeds; three locked attempts.
C21_Witness ==
    /\ retry.kind = "called"
    /\ retry.outcomes[1] = "op_locked" /\ retry.outcomes[2] = "op_locked"
    /\ retry.outcomes[3] = "op_locked"
    /\ retry.result = [kind |-> "raised", value |-> 3, calls |-> 3]

(***************************************************************************)
(* C22. detect_new_files(D, before) returns exactly the files present in D *)
(* now whose relative path is absent from the before snapshot or whose     *)
(* (mtime_ns, size_bytes) pair differs from it; after a snapshot, creating *)
(* one new file makes it report exactly that file, and no change makes it  *)
(* report nothing.                                                         *)
(***************************************************************************)
C22_DetectReportsNewOrChanged ==
    snap.kind = "diffed" =>
       /\ \A x \in Files \cup {SubDir} :
             x \in snap.new_files
             <=> /\ x \in DOMAIN snap.dir /\ snap.dir[x].is_file
                 /\ \/ x \notin DOMAIN snap.before
                    \/ snap.before[x] # snap.dir[x].meta
       /\ snap.ops = <<>> => snap.new_files = {}
       /\ \A f \in Files :
             snap.ops = <<<<"create", f>>>> => snap.new_files = {f}

\* A diff after one file was created and another rewritten reports both.
C22_Witness ==
    /\ snap.kind = "diffed"
    /\ \E f, g \in Files :
         /\ f # g
         /\ snap.ops = <<<<"create", f>>, <<"write", g>>>>
         /\ snap.new_files = {f, g}

(***************************************************************************)
(* C23. ProcessLock.release is idempotent: the second of two calls in a    *)
(* row raises no error and ends, like the first, with the lock file absent *)
(* and no open descriptor; when nothing happened in between it changes     *)
(* nothing.                                                                *)
(***************************************************************************)
C23_ReleaseIdempotent ==
    [][\A p \in Procs :
          lpc[p] = "released" /\ lpc'[p] # "released"
          => /\ lpc'[p] = "released twice"
             /\ lock_file' = NoFile
             /\ ~lock_fd'[p]
             /\ lock_file = NoFile => lock_file' = lock_file /\ lock_fd' = lock_fd
      ]_vars

\* A holder has called release twice: no lock file, no open descriptor.
C23_Witness ==
    \E p \in Procs :
       /\ lpc[p] = "released twice"
       /\ lock_file = NoFile
       /\ ~lock_fd[p]

(***************************************************************************)
(* C24. Only a lock file that is in place yields the busy outcome: an      *)
(* acquire attempt that fails for another reason (the file cannot be       *)
(* created or written) does not end as busy.                               *)
(***************************************************************************)
C24_OnlyLiveLockIsBusy ==
    [][\A p \in Procs :
          lpc[p] \in {"create", "write"} /\ lpc'[p] = "busy"
          => lpc[p] = "create" /\ lock_file.exists
      ]_vars

(***************************************************************************)
(* C25. update_prompt_status changes error_message only when an error      *)
(* argument is given and artifact_status only when an artifact_status      *)
(* argument is given: a call never changes either column to a value that   *)
(* is not a supplied argument (None stands for "not supplied").            *)
(***************************************************************************)
C25_OnlySuppliedColumnsWritten ==
    [][\A p \in PromptIds :
          /\ tbl'[p].error_message # tbl[p].error_message
               => tbl'[p].error_message # None
          /\ tbl'[p].artifact_status # tbl[p].artifact_status
               => tbl'[p].artifact_status # None
      ]_vars

(***************************************************************************)
(* C26. Every write the orchestrator makes to the store goes through the   *)
(* locked-database retry wrapper: when one write of a prompt's handling    *)
(* meets a "database is locked" error once, the write is retried, so the   *)
(* error neither escapes the handler nor becomes the prompt's error.       *)
(***************************************************************************)
C26_LockedWriteIsRetried ==
    \A p \in PromptIds :
       ( /\ handled[p].kind \in {"session", "media"}
         /\ Cardinality(handled[p].failedw) = 1 )
       => /\ ~handled[p].escaped
          /\ tbl[p].error_message # MsgDb

(***************************************************************************)
(* C27. When the environment check, the backend URL lookup or the model    *)
(* validation fails in a tick that has unprocessed prompts, the tick       *)
(* changes the status of no prompt, text or media, handles none, and       *)
(* releases the lock.                                                      *)
(***************************************************************************)
C27_ValidationFailureChangesNothing ==
    validation = "failed" =>
       /\ prompts # <<>>
       /\ \A i \in 1..Len(prompts) : tbl[prompts[i]].status = "unprocessed"
       /\ \A i \in 1..Len(media_prompts) : CompletedPending(media_prompts[i])
       /\ \A p \in PromptIds : handled[p] = NoHandling
       /\ tpc \in {"release", "done", "idle"}
       /\ tpc \in {"done", "idle"} => ~lock_file.exists

\* The checks failed in a tick that had fetched an unprocessed prompt and a
\* pending media prompt; the tick is over.
C27_Witness ==
    /\ validation = "failed"
    /\ tpc = "done"
    /\ prompts # <<>>
    /\ media_prompts # <<>>
    /\ ~lock_file.exists

(***************************************************************************)
(* C28. When the media subprocess exits with a non-zero code or exceeds    *)
(* its timeout, the prompt being handled ends at status failed with        *)
(* artifact_status error and the error's message, and the tick goes on:    *)
(* when it is over every prompt it had selected has been handled.          *)
(***************************************************************************)
C28_SubprocessFailureFailsPrompt ==
    \A p \in PromptIds :
       ( /\ handled[p].kind = "media"
         /\ handled[p].ran
         /\ handled[p].outcome \in {"nonzero", "timeout"} )
       => /\ tbl[p].status = "failed"
          /\ tbl[p].artifact_status = "error"
          /\ tbl[p].error_message # None
          /\ tbl[p].error_message =
                IF handled[p].outcome = "nonzero" THEN MsgExit ELSE MsgTimeout
          /\ ~handled[p].escaped
          /\ TickOver =>
                \A q \in PromptIds :
                   InList(prompts, q) \/ InList(media_prompts, q)
                   => handled[q].kind # "none"

\* The first of two direct media prompts failed with a non-zero exit code
\* and the second was handled after it.
C28_Witness ==
    /\ Len(prompts) = 2
    /\ handled[prompts[1]].kind = "media"
    /\ handled[prompts[1]].outcome = "nonzero"
    /\ tbl[prompts[1]].status = "failed"
    /\ handled[prompts[2]].kind = "media"
    /\ handled[prompts[2]].ran
    /\ TickOver

(***************************************************************************)
(* C29. After a structured prompt's session, if at least one tool-saved    *)
(* writing of the expected content_type that references the prompt id is   *)
(* in the time window, all of them are linked in ascending insertion order *)
(* and no writing is created from the transcript; when there is none and   *)
(* the transcript holds no JSON either, the prompt is marked failed.  The   *)
(* tool-saved writings of a prompt are those of the calls of its session.  *)
(***************************************************************************)
C29_ToolSavedLinkedElseTranscript ==
    \A p \in PromptIds :
       LET own == {i \in 1..Len(writings) :
                      /\ writings[i].content_type = tbl[p].prompt_type
                      /\ writings[i].fresh
                      /\ writings[i].note_id = p}
       IN  ( /\ tpc # "idle"
             /\ tbl[p].prompt_type \in StructuredTypes
             /\ handled[p].kind = "session"
             /\ ~handled[p].raised )
           => /\ handled[p].calls >= 1 =>
                   /\ ~handled[p].harvested
                   /\ \A i \in own :
                         \E r \in prompt_writings :
                            r.prompt_id = p /\ r.writing_id = i
                   /\ \A r1, r2 \in prompt_writings :
                         ( /\ r1.prompt_id = p /\ r2.prompt_id = p
                           /\ r1.writing_id < r2.writing_id )
                         => r1.writing_order < r2.writing_order
              /\ (handled[p].calls = 0 /\ ~handled[p].has_json)
                    => tbl[p].status = "failed"

(***************************************************************************)
(* C30. Each new prompt_writings row gets a writing_order greater than     *)
(* every writing_order already present for its prompt, so the              *)
(* writing_order values of one prompt are pairwise distinct, also when the *)
(* prompt already had a linked writing from a back-fill or an earlier      *)
(* attempt.                                                                *)
(***************************************************************************)
C30_WritingOrderDistinct ==
    \A r1, r2 \in prompt_writings :
       (r1.prompt_id = r2.prompt_id /\ r1.writing_id # r2.writing_id)
       => r1.writing_order # r2.writing_order

(***************************************************************************)
(* C31. The prompts handled in a tick's text pass are the (at most 5)      *)
(* prompts unprocessed at its start that come first in ascending           *)
(* (priority, created_at) order, handled in that order; the media pass     *)
(* likewise handles at most 5 completed/pending structured prompts in that *)
(* order, after the text pass.                                             *)
(***************************************************************************)
C31_FirstFiveInOrder ==
    queue.kind = "fetched" =>
       LET r0 == queue.rows0
           rk == queue.rank
           IsText(p) == r0[p].status = "unprocessed"
           IsMedia(p) == /\ r0[p].status = "completed"
                         /\ r0[p].artifact_status = "pending"
                         /\ r0[p].prompt_type \in StructuredTypes
           Before(p, S) == Cardinality({q \in S : rk[q] < rk[p]})
           Texts == {p \in QueueIds : IsText(p)}
           Medias == {p \in QueueIds : IsMedia(p)}
           Ascending(sq) == \A i, j \in 1..Len(sq) : i < j => rk[sq[i]] < rk[sq[j]]
           all == queue.text \o queue.media
       IN  /\ Len(queue.text) <= QueryLimit /\ Len(queue.media) <= QueryLimit
           /\ \A p \in QueueIds :
                 /\ InList(queue.text, p) <=> (p \in Texts /\ Before(p, Texts) < QueryLimit)
                 /\ InList(queue.media, p) <=> (p \in Medias /\ Before(p, Medias) < QueryLimit)
           /\ Ascending(queue.text) /\ Ascending(queue.media)
           /\ Len(queue.done) <= Len(all)
           /\ \A i \in 1..Len(queue.done) : queue.done[i] = all[i]

\* Six prompts were unprocessed; the tick has handled five and is done.
C31_Witness ==
    /\ queue.kind = "fetched"
    /\ \A p \in QueueIds : queue.rows0[p].status = "unprocessed"
    /\ Len(queue.done) = QueryLimit
    /\ Len(queue.text) = QueryLimit
    /\ \E p \in QueueIds : queue.rows[p].status = "unprocessed"

(***************************************************************************)
(* C32. A tick changes only prompts that it fetched and that were          *)
(* unprocessed, or completed with artifact_status pending and a structured *)
(* type; a prompt in status processing or failed is never modified by a    *)
(* tick, and no step deletes a prompt row.                                 *)
(***************************************************************************)
C32_TickChangesOnlyQueuedPrompts ==
    [][\A p \in PromptIds :
          /\ tbl[p].status # "absent" => tbl'[p].status # "absent"
          /\ (tbl'[p] # tbl[p] /\ tbl[p].status # "absent")
               => /\ InList(prompts, p) \/ InList(media_prompts, p)
                  /\ \/ tbl[p].status = "unprocessed"
                     \/ /\ CompletedPending(p)
                        /\ tbl[p].prompt_type \in StructuredTypes
      ]_vars

\* A prompt left in processing by the first tick is still in processing,
\* unhandled, after a second tick that handled another prompt.
C32_Witness ==
    /\ ticks = 2
    /\ tpc = "done"
    /\ \E p, q \in PromptIds :
         /\ tbl[p].status = "processing"
         /\ handled[p] = NoHandling
         /\ handled[q].kind = "session"
         /\ tbl[q].status = "completed"

(***************************************************************************)
(* C33. A prompt handed to process_media_prompt whose type has no entry in *)
(* the prompt-type map, or whose mapped pipeline is not configured, ends   *)
(* at status failed with artifact_status unsupported, is never set to      *)
(* processing and no subprocess is started for it.                         *)
(***************************************************************************)
C33_UnsupportedTypeFails ==
    \A p \in PromptIds :
       ( /\ handled[p].kind = "media"
         /\ \/ tbl[p].prompt_type \notin DOMAIN svc.type_map
            \/ svc.type_map[tbl[p].prompt_type] \notin svc.media_pipelines )
       => /\ tbl[p].status = "failed"
          /\ tbl[p].artifact_status = "unsupported"
          /\ tbl[p].error_message \in {MsgNoMap, MsgNoPipeline}
          /\ \A i \in 1..Len(handled[p].path) : handled[p].path[i] # "processing"
          /\ ~handled[p].ran
          /\ p \notin started

\* Both cases happened in one tick: a structured prompt without an entry in
\* the map and a music prompt whose pipeline is not configured.
C33_Witness ==
    \E p, q \in PromptIds :
       /\ handled[p].kind = "media" /\ tbl[p].error_message = MsgNoMap
       /\ handled[q].kind = "media" /\ tbl[q].error_message = MsgNoPipeline
       /\ tbl[p].artifact_status = "unsupported"
       /\ tbl[q].artifact_status = "unsupported"

(***************************************************************************)
(* C34. A lock file blocks acquire only while it carries an unexpired      *)
(* timeout_at: an acquire that read a lock file which parses as JSON and   *)
(* has no usable timeout_at removes it and does not return busy.           *)
(***************************************************************************)
C34_NoTimeoutNeverBlocks ==
    \A p \in Procs :
       lpc[p] \in {"create", "busy"} /\ lock_info[p] = NoTimeoutAt
          => /\ lpc[p] # "busy"
             /\ ~(lock_file.exists /\ lock_file.payload = NoTimeoutAt)

(***************************************************************************)
(* C35. ProcessLock.release never removes a lock file that a different     *)
(* process created: when the releasing holder's file was reclaimed and the *)
(* path now holds the file of another process, that file stays in place.   *)
(***************************************************************************)
C35_ReleaseKeepsForeignFile ==
    [][\A p \in Procs :
          ( /\ lpc[p] = "work"
            /\ lpc'[p] = "idle"
            /\ lock_file.exists
            /\ lock_file.creator # p )
          => lock_file' = lock_file]_vars

(***************************************************************************)
(* C36. When a tick that acquired the lock returns, every prompt it        *)
(* handled has status completed or failed: no prompt the tick moved to     *)
(* processing is left in processing, also when fewer than two agents are   *)
(* configured.                                                             *)
(***************************************************************************)
C36_NoPromptLeftProcessing ==
    tpc = "done" =>
       \A p \in PromptIds :
          handled[p] # NoHandling => tbl[p].status \in {"completed", "failed"}

(***************************************************************************)
(* C37. Every tick that acquired the lock releases it by the time          *)
(* run_queue_processor returns: whichever way the invocation leaves the    *)
(* with block (empty queues, failed validation, an exception escaping the  *)
(* handling of a prompt, normal completion), it held the lock file until   *)
(* then and the lock file is removed when it returns.                      *)
(***************************************************************************)
C37_LockReleasedOnEveryExit ==
    [][LET Locked == {"fetch", "validate", "text", "media", "checkpoint", "release"}
       IN  (tpc \in Locked /\ tpc' \notin Locked)
              => /\ tpc' = "done"
                 /\ lock_file.exists
                 /\ ~lock_file'.exists]_vars

\* The invocation returned after an exception escaped the handling of a
\* prompt, and the lock file is gone.
C37_Witness ==
    /\ tpc = "done"
    /\ ~lock_file.exists
    /\ ~checkpointed
    /\ \E p \in PromptIds : handled[p] # NoHandling /\ handled[p].escaped

(***************************************************************************)
(* C38. A --queue invocation that finds the lock busy contacts no HTTP     *)
(* endpoint and writes nothing to the store: whatever an invocation does   *)
(* to the store or the network, it does after it acquired the lock.        *)
(***************************************************************************)
C38_BusyInvocationDoesNothing ==
    [][(tpc = "lock" /\ lock_file.exists /\ tpc' = "idle")
          => contacted = {}]_vars

(***************************************************************************)
(* C39. The tool-saved path links to prompt p only writings that were      *)
(* saved for p: a writing whose notes name another prompt q (q = 12 for    *)
(* p = 1) is never linked to p and never makes p completed.                *)
(***************************************************************************)
C39_LinksOnlyOwnWritings ==
    /\ \A r \in prompt_writings : writings[r.writing_id].note_id = r.prompt_id
    /\ \A p \in PromptIds :
          ( /\ tbl[p].prompt_type \in StructuredTypes
            /\ handled[p].kind = "session"
            /\ handled[p].calls = 0
            /\ ~handled[p].harvested )
          => tbl[p].status # "completed"

(***************************************************************************)
(* C40. Artifact rows of a media run exist in prompt_artifacts only if the *)
(* run ended with the prompt at status completed, artifact_status ready: a *)
(* run that ends at failed/error, also one whose final status write failed *)
(* after the artifacts were inserted, leaves no artifact row.              *)
(***************************************************************************)
C40_ArtifactRowsOnlyWhenReady ==
    \A r \in prompt_artifacts :
       /\ tbl[r.prompt_id].status = "completed"
       /\ tbl[r.prompt_id].artifact_status = "ready"

=========================================================================
